---- MODULE Spec2Model ----
(***************************************************************************)
(* Model of the result-size calculator of graphql-result-size              *)
(* (src/calculate.js): the memoized, concurrent size/result computation    *)
(* populateDataStructures, the bounded resolver gateway (p-limit), the     *)
(* termination controller and the result materializer produceResult.       *)
(*                                                                         *)
(* JavaScript runs every callback to completion; one action of this model  *)
(* is one such callback (the synchronous part of queryCalculator, the      *)
(* start of a queued gateway task, the settling of a backend call, the     *)
(* then-callback that consumes a resolver result, the continuation of a    *)
(* Promise.all, the size callback of a memo hit, the timer callback, the   *)
(* final then-callback).  The order in which callbacks that are ready run  *)
(* is left open.                                                           *)
(***************************************************************************)
EXTENDS Integers, Sequences, FiniteSets, TLC

(***************************************************************************)
(* Bounds and program constants                                            *)
(***************************************************************************)
\* pLimit(10): the concurrency budget of the resolver gateway
Concurrency == 10
\* thresholds tried: 0 .. MaxThreshold
MaxThreshold == 8
\* the threshold of the evaluations followed to their end
LiveThreshold == 5
\* number of sibling scalar fields of the "wide" query: one more than the budget
Wide == Concurrency + 1

NULL == "null"

(***************************************************************************)
(* Selections (the query AST after the loc properties were removed)        *)
(***************************************************************************)
\* a field without selection set
F(name) == [kind |-> "Field", name |-> name, hasSel |-> FALSE, sel |-> <<>>, on |-> ""]
\* a field with a selection set
O(name, sel) == [kind |-> "Field", name |-> name, hasSel |-> TRUE, sel |-> sel, on |-> ""]
\* an inline fragment  ... on T { sel }
Frag(on, sel) == [kind |-> "InlineFragment", name |-> "", hasSel |-> TRUE, sel |-> sel, on |-> on]

WideName(i) == "f" \o ToString(i)

(***************************************************************************)
(* Schema: type Query { n: Int  m: String  tags: [String]  user: User      *)
(*   me: User  users: [User]  nobody: User  none: [User]  tag: [String]    *)
(*   f1..: Int }                                                           *)
(* type User { id: ID  name: String  best: User  friends: [User] }         *)
(***************************************************************************)
ListFields == {"users", "none", "friends"}

\* fieldDef.astNode.type.kind === 'ListType', and the name of the related type
FieldDef(fieldName) ==
    [list |-> fieldName \in ListFields \cup {"tags", "tag"},
     typeName |-> IF fieldName \in {"user", "me", "nobody", "best"} \cup ListFields THEN "User"
                  ELSE IF fieldName \in {"m", "name", "tags", "tag"} THEN "String"
                  ELSE IF fieldName = "id" THEN "ID" ELSE "Int"]

(***************************************************************************)
(* Values a resolver returns                                               *)
(***************************************************************************)
VNull == [t |-> "null", n |-> 0, s |-> "", l |-> <<>>]
VNum(n) == [t |-> "num", n |-> n, s |-> "", l |-> <<>>]
VStr(s) == [t |-> "str", n |-> 0, s |-> s, l |-> <<>>]
\* an array of strings
VArr(l) == [t |-> "arr", n |-> 0, s |-> "", l |-> l]
\* one entity, and an array of entities (entities are given by their id)
VObj(id) == [t |-> "obj", n |-> id, s |-> "", l |-> <<>>]
VObjs(ids) == [t |-> "objs", n |-> 0, s |-> "", l |-> ids]

\* The backend data: a cyclic graph of two users (1 and 2), parent 0 is the
\* root value.  What fieldDef.resolve(parent, ...) resolves to.
Backend(parent, fieldName) ==
    CASE fieldName = "n" -> VNum(7)
      [] fieldName = "m" -> VStr("A")
      [] fieldName = "tags" -> VArr(<<"x", "y">>)
      [] fieldName = "tag" -> VArr(<<"x">>)
      [] fieldName \in {"user", "me"} -> VObj(1)
      [] fieldName = "users" -> VObjs(<<1, 2>>)
      [] fieldName = "nobody" -> VNull
      [] fieldName = "none" -> VObjs(<<>>)
      [] fieldName = "id" -> VNum(parent)
      [] fieldName = "name" -> VStr(IF parent = 1 THEN "A" ELSE "B")
      [] fieldName = "best" -> IF parent = 1 THEN VObj(2) ELSE VNull
      [] fieldName = "friends" -> IF parent = 1 THEN VObjs(<<2>>) ELSE VObjs(<<1>>)
      [] OTHER -> VNum(1)

(***************************************************************************)
(* The queries evaluated                                                   *)
(***************************************************************************)
Query(name) ==
    CASE name = "leaf" -> <<F("n")>>
      [] name = "tags" -> <<F("tags")>>
      [] name = "tag" -> <<F("tag")>>
      [] name = "user" -> <<O("user", <<F("id"), F("name")>>)>>
      [] name = "null" -> <<O("nobody", <<F("id")>>)>>
      [] name = "empty" -> <<O("none", <<F("id")>>)>>
      [] name = "shared" -> <<O("user", <<F("id")>>), O("me", <<F("id")>>)>>
      [] name = "nested" -> <<O("user", <<O("best", <<F("id")>>)>>),
                              O("me", <<O("best", <<F("id")>>)>>)>>
      [] name = "list" -> <<O("users", <<F("id")>>)>>
      [] name = "bests" -> <<O("users", <<O("best", <<F("id")>>)>>)>>
      [] name = "overlap" -> <<O("user", <<F("id")>>), O("me", <<F("id"), F("name")>>)>>
      [] name = "cyclic" -> <<O("user", <<O("friends", <<O("friends", <<F("id")>>)>>)>>)>>
      [] name = "fragMatch" -> <<Frag("Query", <<F("n")>>), F("m")>>
      [] name = "fragMiss" -> <<Frag("User", <<F("id")>>), F("m")>>
      [] name = "fragShared" -> <<O("user", <<Frag("User", <<F("id")>>)>>),
                                  O("me", <<Frag("User", <<F("id")>>)>>)>>
      [] name = "wide" -> [i \in 1..Wide |-> F(WideName(i))]

Scenarios == {"leaf", "tags", "tag", "user", "null", "empty", "shared", "nested", "list",
              "bests", "overlap", "cyclic", "fragMatch", "fragMiss", "fragShared"}

(***************************************************************************)
(* Nodes and memo keys                                                     *)
(***************************************************************************)
Node(x, y) == [id |-> x, table |-> y]
getRootNode == Node(0, "Query")
nodeType(node) == node.table
\* the id is the value of the ID-typed field of the item, the type is the
\* (element) type of the field
createNode(item, fieldDef) == Node(item, fieldDef.typeName)

\* JSON.stringify([u, print(query)]): structural identity of the pair
getMapKey(u, query) == [u |-> u, q |-> query]
NoKey == getMapKey(Node(-1, ""), <<>>)

(***************************************************************************)
(* Tokens of the result map, promises, errors                              *)
(***************************************************************************)
\* a string (or number) pushed to a result-map entry
Lit(str) == [t |-> "string", s |-> str, a |-> <<>>]
\* [mapKey]: an array holding one key, a reference to another entry
Ref(k) == [t |-> "array", s |-> "", a |-> <<k>>]
\* an array value pushed as one element
ArrTok(l) == [t |-> "array", s |-> "", a |-> l]
\* the JavaScript value null pushed as an element
NullTok == [t |-> "null", s |-> "", a |-> <<>>]

Quote(str) == "\"" \o str \o "\""
NameTok(fieldName) == "\"" \o fieldName \o "\"" \o ":"

Err(type, k) == [type |-> type, k |-> k]
NoErr == Err("none", NoKey)

Pending == [state |-> "pending", value |-> 0, error |-> NoErr]
Fulfilled(v) == [state |-> "fulfilled", value |-> v, error |-> NoErr]
Rejected(e) == [state |-> "rejected", value |-> 0, error |-> e]

\* What a caller of populateDataStructures holds: the size promise of a key
\* (plus what later then-callbacks add to its value), an already resolved
\* promise, or an already rejected one.
PKey(k) == [t |-> "key", k |-> k, add |-> 0, e |-> NoErr]
PConst(v) == [t |-> "const", k |-> NoKey, add |-> v, e |-> NoErr]
PRej(e) == [t |-> "rej", k |-> NoKey, add |-> 0, e |-> e]
\* promise.then(size => size + n)
ThenAdd(p, n) == IF p.t = "rej" THEN p ELSE [p EXCEPT !.add = @ + n]

Put(f, k, v) == [x \in DOMAIN f \cup {k} |-> IF x = k THEN v ELSE f[x]]
Count(f, k) == IF k \in DOMAIN f THEN f[k] ELSE 0

RECURSIVE SumSeq(_)
SumSeq(q) == IF q = <<>> THEN 0 ELSE Head(q) + SumSeq(Tail(q))

(***************************************************************************)
(* State                                                                   *)
(***************************************************************************)
VARIABLES
    scenario,        \* the query of the request (requestContext.document)
    threshold,       \* contextValue.threshold
    terminateEarly,  \* contextValue.terminateEarly
    timeout,         \* contextValue.timeout > 0
    mayFail,         \* whether the backend may fail a call
    otherActive,     \* the slots of limit held by tasks of other invocations
    errorCode,       \* calculationContext.errorCode
    earlyTerminationTimestamp, \* whether calculationContext.earlyTerminationTimestamp is set
    labelMap,        \* structures.labelMap: node -> the selections considered
    sizeMap,         \* structures.sizeMap: key -> size promise
    resultMap,       \* structures.resultMap: key -> tokens
    hits,            \* structures.hits
    globalSize,      \* structures.globalSize
    queue,           \* the tasks waiting in limit, oldest first
    calls,           \* the tasks given to limit by resolveField, by key
    pending,         \* the continuations waiting for the promises of sub-computations
    hitAdds,         \* registered callbacks size => globalSize += size, by key
    timer,           \* "none", "armed", "fired" or "cleared"
    pc,              \* "init", "running", "resolved" or "rejected"
    rootPromise,     \* what populateDataStructures returned for the root
    response,        \* the response built by the final callback
    dispatchCount,   \* history: how often the branch dispatch ran, by key
    resolverCalls,   \* history: how often the backend resolver was invoked, by key
    library,         \* the canonicalizer applied: "queryParser", "key-del" or "none"
    document,        \* the selections handed to the canonicalizer
    canonical,       \* what the canonicalizer returned
    stage,           \* "raw", "once" (canonicalized) or "twice" (canonicalized again)
    variant,         \* the earlier sizeCalculator run: "part_001", "part_002", "part_003" or "none"
    definitions,     \* the number of definitions of the document
    labels,          \* labels: node -> the selections considered
    sizeArrays,      \* sizeMap of the earlier variants: key -> array of numbers and arrays
    resultsMap,      \* structures.resultsMap of part_003: key -> tokens
    resolving,       \* the backend calls (getEdges, resolveFn) made, by key
    joins,           \* part_003: the callbacks waiting for the promise of a sub-computation
    validationContext, \* the errors reported on the validationContext
    returned,        \* what sizeCalculator returned or resolved to
    phase            \* "init", "running", "resolved", "returned", "threw" or "rejected"

vars == <<scenario, threshold, terminateEarly, timeout, mayFail, otherActive, errorCode,
          earlyTerminationTimestamp, labelMap, sizeMap, resultMap, hits, globalSize,
          queue, calls, pending, hitAdds, timer, pc, rootPromise, response,
          dispatchCount, resolverCalls, library, document, canonical, stage,
          variant, definitions, labels, sizeArrays, resultsMap, resolving, joins,
          validationContext, returned, phase>>

\* the state of the canonicalizer
canonVars == <<library, document, canonical, stage>>

\* the state of a run of an earlier variant of sizeCalculator
legacyVars == <<variant, definitions, labels, sizeArrays, resultsMap, resolving, joins,
                validationContext, returned, phase>>

\* the request, and what the evaluation does not write
config == <<scenario, threshold, terminateEarly, timeout, mayFail, otherActive, canonVars,
            legacyVars>>

\* the state of an evaluation by calculate.js
calcVars == <<scenario, threshold, terminateEarly, timeout, mayFail, otherActive, errorCode,
              earlyTerminationTimestamp, labelMap, sizeMap, resultMap, hits, globalSize,
              queue, calls, pending, hitAdds, timer, pc, rootPromise, response,
              dispatchCount, resolverCalls>>

\* the mutable objects handed through the calls of one callback
Structures ==
    [labelMap |-> labelMap, sizeMap |-> sizeMap, resultMap |-> resultMap, hits |-> hits,
     globalSize |-> globalSize, errorCode |-> errorCode,
     earlyTerminationTimestamp |-> earlyTerminationTimestamp, queue |-> queue,
     calls |-> calls, pending |-> pending, hitAdds |-> hitAdds,
     dispatchCount |-> dispatchCount, prom |-> Pending, ret |-> PConst(0), deps |-> <<>>]

Commit(s) ==
    /\ labelMap' = s.labelMap
    /\ sizeMap' = s.sizeMap
    /\ resultMap' = s.resultMap
    /\ hits' = s.hits
    /\ globalSize' = s.globalSize
    /\ errorCode' = s.errorCode
    /\ earlyTerminationTimestamp' = s.earlyTerminationTimestamp
    /\ queue' = s.queue
    /\ calls' = s.calls
    /\ pending' = s.pending
    /\ hitAdds' = s.hitAdds
    /\ dispatchCount' = s.dispatchCount

(***************************************************************************)
(* Termination controller                                                  *)
(***************************************************************************)
\* variant: only the threshold is looked at, not the error code already set
checkTermination_thresholdOnly(s) ==
    /\ terminateEarly
    /\ threshold # 0
    /\ s.globalSize > threshold

\* variant: the switch terminateEarly is not looked at
EarlyTerminationDue_ignoresSwitch(s) ==
    /\ threshold # 0
    /\ s.globalSize > threshold

\* the second condition of checkTermination
EarlyTerminationDue(s) ==
    /\ terminateEarly
    /\ threshold # 0
    /\ s.globalSize > threshold

\* the value checkTermination returns
checkTermination(s) ==
    \/ s.errorCode # NULL
    \/ EarlyTerminationDue(s)

\* the state checkTermination leaves
checkTerminationEffect(s) ==
    IF s.errorCode = NULL /\ EarlyTerminationDue(s)
    THEN [s EXCEPT !.errorCode = "EARLY_TERMINATION_RESULT_SIZE_LIMIT_EXCEEDED",
                   !.earlyTerminationTimestamp = TRUE]
    ELSE s

(***************************************************************************)
(* Memo store                                                              *)
(***************************************************************************)
queryAlreadyConsideredForNode(lm, u, query) ==
    /\ u \in DOMAIN lm
    /\ \E i \in 1..Len(lm[u]) : lm[u][i] = query

\* variant: the pair is not recorded
markQueryAsConsideredForNode_skip(lm, u, query) == lm

markQueryAsConsideredForNode(lm, u, query) ==
    IF u \notin DOMAIN lm THEN Put(lm, u, <<query>>)
    ELSE [lm EXCEPT ![u] = Append(@, query)]

initializeDataStructures(rm, mapKey) ==
    IF mapKey \notin DOMAIN rm THEN Put(rm, mapKey, <<>>) ELSE rm

\* variant: the token is put in front of the list
Push_front(s, mapKey, tok) == [s EXCEPT !.resultMap[mapKey] = <<tok>> \o @]

\* structures.resultMap.get(mapKey).push(tok)
Push(s, mapKey, tok) == [s EXCEPT !.resultMap[mapKey] = Append(@, tok)]

(***************************************************************************)
(* Resolver gateway: resolveField hands a task to limit                    *)
(***************************************************************************)
resolveField(s, mapKey, parentForResolvers) ==
    [s EXCEPT !.queue = Append(@, mapKey),
              !.calls = Put(@, mapKey, [status |-> "queued", result |-> VNull,
                                        parent |-> parentForResolvers]),
              !.prom = Pending]

(***************************************************************************)
(* The populator                                                           *)
(***************************************************************************)
RECURSIVE populateDataStructures(_, _, _, _)
RECURSIVE SubqueryLoop(_, _, _, _, _, _)

updateDataStructuresForAllSubqueries(s, query, mapKey, u, parentForResolvers) ==
    LET s1 == [s EXCEPT !.globalSize = @ + Len(query) - 1]
        s2 == SubqueryLoop(s1, query, mapKey, u, parentForResolvers, 1)
    IN [s2 EXCEPT !.pending = Put(@, mapKey, [kind |-> "concat", deps |-> s2.deps]),
                  !.prom = Pending]

\* query.map((subquery, index) => ...), from the item at position i on;
\* the promises collected so far are in s.deps
SubqueryLoop(s, query, mapKey, u, parentForResolvers, i) ==
    IF i > Len(query) THEN s
    ELSE IF checkTermination(s) THEN
        SubqueryLoop([checkTerminationEffect(s) EXCEPT !.deps = Append(@, PConst(0))],
                     query, mapKey, u, parentForResolvers, i + 1)
    ELSE
        LET sa == IF i # 1 THEN Push(s, mapKey, Lit(",")) ELSE s
            sb == Push(sa, mapKey, Ref(getMapKey(u, <<query[i]>>)))
            sc == populateDataStructures(sb, u, <<query[i]>>, parentForResolvers)
        IN SubqueryLoop([sc EXCEPT !.deps = Append(sb.deps, sc.ret)],
                        query, mapKey, u, parentForResolvers, i + 1)

updateDataStructuresForScalarField(s, mapKey, parentForResolvers) ==
    resolveField(s, mapKey, parentForResolvers)

updateDataStructuresForObjectField(s, mapKey, parentForResolvers) ==
    LET s1 == [s EXCEPT !.globalSize = @ + 2]
    IN IF checkTermination(s1)
       THEN [checkTerminationEffect(s1) EXCEPT !.prom = Fulfilled(0)]
       ELSE resolveField(s1, mapKey, parentForResolvers)

\* variant: the reference is appended for a fragment on another type too
updateDataStructuresForInlineFragment_appends(s, mapKey, u, query) ==
    IF nodeType(u) = query.on
    THEN Push(s, mapKey, Ref(getMapKey(u, query.sel)))
    ELSE [Push(s, mapKey, Ref(getMapKey(u, query.sel))) EXCEPT !.prom = Fulfilled(0)]

\* A fragment on another type resolves to 0.  For a fragment on the type of
\* the node the reference is pushed and the next statement reads the
\* undeclared name fieldInfo: a ReferenceError leaves the function.
InlineFragmentThrows(u, query) == nodeType(u) = query.on

updateDataStructuresForInlineFragment(s, mapKey, u, query) ==
    IF nodeType(u) = query.on
    THEN Push(s, mapKey, Ref(getMapKey(u, query.sel)))
    ELSE [s EXCEPT !.prom = Fulfilled(0)]

\* structures.sizeMap.set(mapKey, sizePromise); return sizePromise
SetSize(s, mapKey) ==
    [s EXCEPT !.sizeMap = Put(@, mapKey, s.prom), !.ret = PKey(mapKey)]

\* variant: the revisit is not counted
MemoHit_uncounted(s, mapKey) ==
    IF mapKey \notin DOMAIN s.sizeMap
    THEN [s EXCEPT !.ret = PRej(Err("TypeError", mapKey))]
    ELSE [s EXCEPT !.hitAdds = Put(@, mapKey, Count(@, mapKey) + 1),
                   !.ret = PKey(mapKey)]

\* variant: the revisit resolves at once, without the size of the pair
MemoHit_resolvesAtOnce(s, mapKey) ==
    LET s1 == [s EXCEPT !.hits = @ + 1]
    IN IF mapKey \notin DOMAIN s1.sizeMap
       THEN [s1 EXCEPT !.ret = PRej(Err("TypeError", mapKey))]
       ELSE [s1 EXCEPT !.hitAdds = Put(@, mapKey, Count(@, mapKey) + 1),
                       !.ret = PConst(0)]

\* The revisit branch: the query already exists in labels for this node.
\* Without an entry in sizeMap, sizeMap.get(mapKey).then is a TypeError.
MemoHit(s, mapKey) ==
    LET s1 == [s EXCEPT !.hits = @ + 1]
    IN IF mapKey \notin DOMAIN s1.sizeMap
       THEN [s1 EXCEPT !.ret = PRej(Err("TypeError", mapKey))]
       ELSE [s1 EXCEPT !.hitAdds = Put(@, mapKey, Count(@, mapKey) + 1),
                       !.ret = PKey(mapKey)]

populateDataStructures(s, u, query, parentForResolvers) ==
    LET mapKey == getMapKey(u, query) IN
    IF ~queryAlreadyConsideredForNode(s.labelMap, u, query) THEN
        LET s1 == [s EXCEPT !.labelMap = markQueryAsConsideredForNode(@, u, query),
                            !.resultMap = initializeDataStructures(@, mapKey),
                            !.dispatchCount = Put(@, mapKey, Count(@, mapKey) + 1)]
        IN IF Len(query) > 1 THEN
               LET s2 == updateDataStructuresForAllSubqueries(
                             [s1 EXCEPT !.deps = <<>>], query, mapKey, u, parentForResolvers)
               IN SetSize([s2 EXCEPT !.deps = s.deps], mapKey)
           ELSE IF ~query[1].hasSel THEN
               SetSize(updateDataStructuresForScalarField(s1, mapKey, parentForResolvers),
                       mapKey)
           ELSE IF query[1].kind = "Field" THEN
               SetSize(updateDataStructuresForObjectField(s1, mapKey, parentForResolvers),
                       mapKey)
           ELSE IF InlineFragmentThrows(u, query[1]) THEN
               \* the async function turns the exception into a rejected promise;
               \* sizeMap.set is not reached
               [updateDataStructuresForInlineFragment(s1, mapKey, u, query[1])
                   EXCEPT !.ret = PRej(Err("ReferenceError", mapKey))]
           ELSE
               SetSize(updateDataStructuresForInlineFragment(s1, mapKey, u, query[1]),
                       mapKey)
    ELSE MemoHit(s, mapKey)

(***************************************************************************)
(* The then-callbacks that consume a resolver result                       *)
(***************************************************************************)
RECURSIVE ArrayValue(_, _)
\* the elements of the array value after "[": strings quote-wrapped, "," between
ArrayValue(result, i) ==
    IF i > Len(result) THEN <<>>
    ELSE (IF i # 1 THEN <<",">> ELSE <<>>) \o <<Quote(result[i])>> \o ArrayValue(result, i + 1)

\* variant: the separators between the elements of an array are not counted
ScalarSize_noSeparators(result) ==
    IF result.t \in {"arr", "objs"} THEN 2 + 2 + Len(result.l) ELSE 2 + 1

\* the size computed by updateDataStructuresForScalarFieldValue
ScalarSize(result) ==
    IF result.t \in {"arr", "objs"} THEN
        2 + 2 + (IF Len(result.l) = 1 THEN 1
                 ELSE IF Len(result.l) > 1 THEN Len(result.l) * 2 - 1 ELSE 0)
    ELSE 2 + 1

\* the value pushed by updateDataStructuresForScalarFieldValue
ScalarToken(result) ==
    CASE result.t = "arr" -> ArrTok(<<"[">> \o ArrayValue(result.l, 1) \o <<"]">>)
      [] result.t = "str" -> Lit(Quote(result.s))
      [] result.t = "num" -> Lit(ToString(result.n))
      [] OTHER -> NullTok

updateDataStructuresForScalarFieldValue(s, mapKey, result, fieldName) ==
    LET size == ScalarSize(result)
        s1 == [s EXCEPT !.globalSize = @ + size]
        s2 == Push(s1, mapKey, Lit(NameTok(fieldName)))
        s3 == Push(s2, mapKey, ScalarToken(result))
    IN [s3 EXCEPT !.sizeMap[mapKey] = Fulfilled(size)]

\* variant: the reference pushed names a key that is never initialized
updateDataStructuresForObjectFieldResultItem_noKey(s, subquery, fieldDef, mapKey, parentForResolvers) ==
    LET s1 == [s EXCEPT !.globalSize = @ + 2]
        relatedNode == createNode(parentForResolvers, fieldDef)
        s2 == Push(s1, mapKey, Lit("{"))
        s3 == Push(s2, mapKey, Ref(getMapKey(relatedNode, <<>>)))
        s4 == Push(s3, mapKey, Lit("}"))
        s5 == populateDataStructures(s4, relatedNode, subquery.sel, parentForResolvers)
    IN [s5 EXCEPT !.ret = ThenAdd(s5.ret, 2)]

updateDataStructuresForObjectFieldResultItem(s, subquery, fieldDef, mapKey, parentForResolvers) ==
    LET s1 == [s EXCEPT !.globalSize = @ + 2]
        relatedNode == createNode(parentForResolvers, fieldDef)
        mapKeyForRelatedNode == getMapKey(relatedNode, subquery.sel)
        s2 == Push(s1, mapKey, Lit("{"))
        s3 == Push(s2, mapKey, Ref(mapKeyForRelatedNode))
        s4 == Push(s3, mapKey, Lit("}"))
        s5 == populateDataStructures(s4, relatedNode, subquery.sel, parentForResolvers)
    IN [s5 EXCEPT !.ret = ThenAdd(s5.ret, 2)]

RECURSIVE ResultItemLoop(_, _, _, _, _, _)
\* result.map((resultItem, index) => ...), from the item at position i on
ResultItemLoop(s, result, subquery, fieldDef, mapKey, i) ==
    IF i > Len(result) THEN s
    ELSE IF checkTermination(s) THEN
        ResultItemLoop([checkTerminationEffect(s) EXCEPT !.deps = Append(@, PConst(0))],
                       result, subquery, fieldDef, mapKey, i + 1)
    ELSE
        LET sa == IF i # 1 THEN Push(s, mapKey, Lit(",")) ELSE s
            sb == updateDataStructuresForObjectFieldResultItem(sa, subquery, fieldDef,
                                                               mapKey, result[i])
        IN ResultItemLoop([sb EXCEPT !.deps = Append(sa.deps, sb.ret)],
                          result, subquery, fieldDef, mapKey, i + 1)

\* variant: the two brackets of an array result are not added
ArrayOverhead_noBrackets(len) == len - 1

\* what the code adds to globalSize for an array result: the brackets and the commas
ArrayOverhead(len) == 2 + len - 1

updateDataStructuresForObjectFieldResult(s, result, mapKey, subquery, fieldDef) ==
    IF result.t = "null" THEN
        LET s1 == [s EXCEPT !.globalSize = @ + 1]
            s2 == Push(s1, mapKey, Lit("null"))
        IN [s2 EXCEPT !.sizeMap[mapKey] = Fulfilled(1 + 2)]
    ELSE IF result.t \in {"arr", "objs"} THEN
        LET s1 == [s EXCEPT !.globalSize = @ + ArrayOverhead(Len(result.l))]
            s2 == Push(s1, mapKey, Lit("["))
            s3 == ResultItemLoop([s2 EXCEPT !.deps = <<>>], result.l, subquery, fieldDef,
                                 mapKey, 1)
        IN [s3 EXCEPT !.pending = Put(@, mapKey, [kind |-> "list", deps |-> s3.deps]),
                      !.deps = <<>>]
    ELSE
        LET s1 == updateDataStructuresForObjectFieldResultItem(s, subquery, fieldDef,
                                                               mapKey, result.n)
        IN [s1 EXCEPT !.pending = Put(@, mapKey, [kind |-> "single", deps |-> <<s1.ret>>])]

\* resolveField(...).then(result => ...) of updateDataStructuresForScalarField
\* and of updateDataStructuresForObjectField
ThenCallback(s, mapKey, result) ==
    LET subquery == mapKey.q[1] IN
    IF ~subquery.hasSel
    THEN updateDataStructuresForScalarFieldValue(s, mapKey, result, subquery.name)
    ELSE updateDataStructuresForObjectFieldResult(
             Push(s, mapKey, Lit(NameTok(subquery.name))),
             result, mapKey, subquery, FieldDef(subquery.name))

(***************************************************************************)
(* Promise.all(...).then(...): the continuation of a key waiting for the   *)
(* promises of its sub-computations                                        *)
(***************************************************************************)
DepState(sm, d) ==
    CASE d.t = "key" -> sm[d.k].state
      [] d.t = "const" -> "fulfilled"
      [] OTHER -> "rejected"

DepValue(sm, d) == IF d.t = "key" THEN sm[d.k].value + d.add ELSE d.add
DepError(sm, d) == IF d.t = "key" THEN sm[d.k].error ELSE d.e

\* variant: the commas of a concatenation are not counted
JoinSize_noCommas(kind, sizes) ==
    CASE kind = "concat" -> SumSeq(sizes)
      [] kind = "list" -> (2 + (Len(sizes) - 1) + SumSeq(sizes)) + 2
      [] OTHER -> SumSeq(sizes) + 2

\* variant: the separators between the elements of a list are not counted
JoinSize_listNoSeparators(kind, sizes) ==
    CASE kind = "concat" -> (Len(sizes) - 1) + SumSeq(sizes)
      [] kind = "list" -> (2 + SumSeq(sizes)) + 2
      [] OTHER -> SumSeq(sizes) + 2

\* the size the continuation resolves to, from the sizes of the sub-computations
JoinSize(kind, sizes) ==
    CASE kind = "concat" -> (Len(sizes) - 1) + SumSeq(sizes)
      [] kind = "list" -> (2 + (Len(sizes) - 1) + SumSeq(sizes)) + 2
      [] OTHER -> SumSeq(sizes) + 2

(***************************************************************************)
(* Result materializer                                                     *)
(***************************************************************************)
RECURSIVE produceResult(_, _)
RECURSIVE produceElements(_, _, _)

\* element.length > 1: the loop body evaluates the undeclared name q
ArrayElementThrows(element) == element.t = "array" /\ Len(element.a) > 1

\* the forEach over resultMap.get(index), from position i on; one is what
\* the element at position i adds, rest what the elements after it add
\* (each is bound as an element of a singleton, to be computed once)
produceElements(rm, elements, i) ==
    IF i > Len(elements) THEN [ok |-> TRUE, text |-> <<>>, error |-> "none"]
    ELSE
        LET element == elements[i]
        IN CHOOSE r \in
            {IF ~one.ok THEN one
             ELSE CHOOSE r2 \in
                 {IF ~rest.ok THEN rest
                  ELSE [ok |-> TRUE, text |-> one.text \o rest.text, error |-> "none"] :
                     rest \in {produceElements(rm, elements, i + 1)}} : TRUE :
                one \in {IF ArrayElementThrows(element) THEN
                             [ok |-> FALSE, text |-> <<>>, error |-> "ReferenceError"]
                         ELSE IF element.t = "array" THEN
                             IF element.a = <<>> THEN
                                 [ok |-> FALSE, text |-> <<>>, error |-> "TypeError"]
                             ELSE produceResult(rm, element.a[1])
                         ELSE IF element.t = "null" THEN
                             [ok |-> TRUE, text |-> <<"null">>, error |-> "none"]
                         ELSE [ok |-> TRUE, text |-> <<element.s>>, error |-> "none"]}} : TRUE

\* the text is kept as the sequence of the pieces concatenated
produceResult(rm, index) ==
    IF index \notin DOMAIN rm
    THEN [ok |-> FALSE, text |-> <<>>, error |-> "TypeError"]
    ELSE produceElements(rm, rm[index], 1)

(***************************************************************************)
(* JSON.parse of the text, and the response of a direct execution          *)
(***************************************************************************)
JScalar(tok) == [t |-> "scalar", s |-> tok, m |-> <<>>]
JObject(members) == [t |-> "object", s |-> "", m |-> members]
JArray(elements) == [t |-> "array", s |-> "", m |-> elements]
Member(name, val) == [name |-> name, val |-> val]
JNone == [t |-> "none", s |-> "", m |-> <<>>]

FieldNames == {"n", "m", "tags", "tag", "user", "me", "users", "nobody", "none", "id", "name",
               "best", "friends"} \cup {WideName(i) : i \in 1..Wide}
\* the pieces that are a JSON number, string or null
ScalarTokens == {"null"} \cup {ToString(i) : i \in 0..Wide}
                \cup {Quote(str) : str \in {"A", "B", "x", "y"}}
IsNameTok(tok) == \E f \in FieldNames : NameTok(f) = tok

\* obj[name] = val: a repeated name keeps its first position and takes the new value
SetMember(members, name, val) ==
    IF \E i \in 1..Len(members) : members[i].name = name
    THEN [i \in 1..Len(members) |->
             IF members[i].name = name THEN Member(name, val) ELSE members[i]]
    ELSE Append(members, Member(name, val))

ParseFail == [ok |-> FALSE, val |-> JNone, pos |-> 0]
RECURSIVE ParseValue(_, _)
RECURSIVE ParseMembers(_, _, _)
RECURSIVE ParseElements(_, _, _)

\* the value starting at position i of the pieces
ParseValue(toks, i) ==
    IF i > Len(toks) THEN ParseFail
    ELSE IF toks[i] = "{" THEN
        IF i + 1 <= Len(toks) /\ toks[i + 1] = "}"
        THEN [ok |-> TRUE, val |-> JObject(<<>>), pos |-> i + 2]
        ELSE ParseMembers(toks, i + 1, <<>>)
    ELSE IF toks[i] = "[" THEN
        IF i + 1 <= Len(toks) /\ toks[i + 1] = "]"
        THEN [ok |-> TRUE, val |-> JArray(<<>>), pos |-> i + 2]
        ELSE ParseElements(toks, i + 1, <<>>)
    ELSE IF toks[i] \in ScalarTokens
        THEN [ok |-> TRUE, val |-> JScalar(toks[i]), pos |-> i + 1]
    ELSE ParseFail

\* the members of an object from position i on; v is the value after the name
\* (bound as the element of a singleton, to be computed once)
ParseMembers(toks, i, acc) ==
    IF i > Len(toks) \/ ~IsNameTok(toks[i]) THEN ParseFail
    ELSE CHOOSE r \in
        {IF ~v.ok \/ v.pos > Len(toks) THEN ParseFail
         ELSE LET members == SetMember(acc, CHOOSE f \in FieldNames : NameTok(f) = toks[i], v.val) IN
              IF toks[v.pos] = "," THEN ParseMembers(toks, v.pos + 1, members)
              ELSE IF toks[v.pos] = "}"
                  THEN [ok |-> TRUE, val |-> JObject(members), pos |-> v.pos + 1]
              ELSE ParseFail :
            v \in {ParseValue(toks, i + 1)}} : TRUE

\* the elements of an array from position i on
ParseElements(toks, i, acc) ==
    CHOOSE r \in
        {IF ~v.ok \/ v.pos > Len(toks) THEN ParseFail
         ELSE LET elements == Append(acc, Member("", v.val)) IN
              IF toks[v.pos] = "," THEN ParseElements(toks, v.pos + 1, elements)
              ELSE IF toks[v.pos] = "]"
                  THEN [ok |-> TRUE, val |-> JArray(elements), pos |-> v.pos + 1]
              ELSE ParseFail :
            v \in {ParseValue(toks, i)}} : TRUE

\* JSON.parse(`{ ${text} }`)
JSONparse(text) ==
    LET toks == <<"{">> \o text \o <<"}">>
    IN CHOOSE r \in
        {IF v.ok /\ v.pos = Len(toks) + 1 THEN v ELSE ParseFail :
            v \in {ParseValue(toks, 1)}} : TRUE

\* The number of symbols of a text: a piece "name": is two symbols (the
\* field name and the colon), every other piece is one.
RECURSIVE SymbolCount(_)
SymbolCount(text) ==
    IF text = <<>> THEN 0
    ELSE (IF IsNameTok(Head(text)) THEN 2 ELSE 1) + SymbolCount(Tail(text))

RECURSIVE ExecuteSelection(_, _, _)
\* the JSON value of a scalar field
ExecuteScalar(v) ==
    CASE v.t = "num" -> JScalar(ToString(v.n))
      [] v.t = "str" -> JScalar(Quote(v.s))
      [] v.t = "arr" -> JArray([i \in 1..Len(v.l) |-> Member("", JScalar(Quote(v.l[i])))])
      [] OTHER -> JScalar("null")

\* The members a direct execution of the selection produces for an entity:
\* the response of graphql's execute, every field resolved from its parent.
ExecuteSelection(parent, typeName, sel) ==
    IF sel = <<>> THEN <<>>
    ELSE
        LET item == Head(sel)
            rest == ExecuteSelection(parent, typeName, Tail(sel))
            v == Backend(parent, item.name)
        IN IF item.kind = "InlineFragment" THEN
               (IF item.on = typeName THEN ExecuteSelection(parent, typeName, item.sel)
                ELSE <<>>) \o rest
           ELSE IF ~item.hasSel THEN <<Member(item.name, ExecuteScalar(v))>> \o rest
           ELSE IF v.t = "null" THEN <<Member(item.name, JScalar("null"))>> \o rest
           ELSE IF v.t = "objs" THEN
               <<Member(item.name,
                        JArray([i \in 1..Len(v.l) |->
                                   Member("", JObject(ExecuteSelection(
                                       v.l[i], FieldDef(item.name).typeName, item.sel)))]))>>
               \o rest
           ELSE <<Member(item.name,
                         JObject(ExecuteSelection(v.n, FieldDef(item.name).typeName,
                                                  item.sel)))>> \o rest

\* the data a direct, unbounded execution of the query returns
Execute(name) == JObject(ExecuteSelection(0, "Query", Query(name)))

RECURSIVE Serialize(_)
RECURSIVE SerializeAll(_, _, _)
\* JSON.stringify, as a sequence of symbols (name and colon in one piece)
Serialize(j) ==
    CASE j.t = "object" -> <<"{">> \o SerializeAll(j.m, 1, TRUE) \o <<"}">>
      [] j.t = "array" -> <<"[">> \o SerializeAll(j.m, 1, FALSE) \o <<"]">>
      [] OTHER -> <<j.s>>
SerializeAll(members, i, named) ==
    IF i > Len(members) THEN <<>>
    ELSE (IF i # 1 THEN <<",">> ELSE <<>>)
         \o (IF named THEN <<NameTok(members[i].name)>> ELSE <<>>)
         \o Serialize(members[i].val) \o SerializeAll(members, i + 1, named)

\* the size of the response of the query: the symbols between the outer braces
ActualSize(name) == SymbolCount(SerializeAll(Execute(name).m, 1, TRUE))

(***************************************************************************)
(* The canonicalizer: the selections of the document without the loc       *)
(* properties (src/queryParser.js, and key-del called with the key 'loc'). *)
(* A JavaScript value is a primitive, an array or an object; the           *)
(* properties of an object are kept in their order.                        *)
(***************************************************************************)
AstStr(str) == [t |-> "str", s |-> str, p |-> <<>>]
Prop(key, val) == [k |-> key, v |-> val]
AstArr(items) == [t |-> "arr", s |-> "", p |-> [i \in 1..Len(items) |-> Prop("", items[i])]]
AstObj(props) == [t |-> "obj", s |-> "", p |-> props]

\* the location object the parser attaches to every node
Loc == Prop("loc", AstObj(<<Prop("start", AstStr("0")), Prop("end", AstStr("1"))>>))

NameNode(value) == AstObj(<<Prop("kind", AstStr("Name")), Prop("value", AstStr(value)), Loc>>)

\* the value nodes of an argument: int, bool, variable, list, object
RECURSIVE ValueNode(_)
ValueNode(shape) ==
    CASE shape = "int" ->
            AstObj(<<Prop("kind", AstStr("IntValue")), Prop("value", AstStr("1")), Loc>>)
      [] shape = "bool" ->
            AstObj(<<Prop("kind", AstStr("BooleanValue")), Prop("value", [t |-> "bool", s |-> "false", p |-> <<>>]), Loc>>)
      [] shape = "variable" ->
            AstObj(<<Prop("kind", AstStr("Variable")), Prop("name", NameNode("v")), Loc>>)
      [] shape = "list" ->
            AstObj(<<Prop("kind", AstStr("ListValue")),
                     Prop("values", AstArr(<<ValueNode("int"), ValueNode("variable")>>)), Loc>>)
      [] OTHER ->
            AstObj(<<Prop("kind", AstStr("ObjectValue")),
                     Prop("fields", AstArr(<<AstObj(<<Prop("kind", AstStr("ObjectField")),
                                                      Prop("name", NameNode("x")),
                                                      Prop("value", ValueNode("int")),
                                                      Loc>>)>>)),
                     Loc>>)

ArgumentNode(name, shape) ==
    AstObj(<<Prop("kind", AstStr("Argument")), Prop("name", NameNode(name)),
             Prop("value", ValueNode(shape)), Loc>>)

SelectionSetNode(selections) ==
    AstObj(<<Prop("kind", AstStr("SelectionSet")), Prop("selections", AstArr(selections)),
             Loc>>)

\* a field; alias and selectionSet are left out when the query has none
FieldNode(alias, name, args, directives, selections) ==
    AstObj(<<Prop("kind", AstStr("Field"))>>
           \o (IF alias # "" THEN <<Prop("alias", NameNode(alias))>> ELSE <<>>)
           \o <<Prop("name", NameNode(name)), Prop("arguments", AstArr(args)),
                Prop("directives", AstArr(directives))>>
           \o (IF selections # <<>> THEN <<Prop("selectionSet", SelectionSetNode(selections))>>
               ELSE <<>>)
           \o <<Loc>>)

\* The documents canonicalized: a field a with or without alias, argument
\* (of every value shape), directive and sub-selection (a field or an inline
\* fragment), followed by a field b.
Selections(alias, shape, directive, nesting) ==
    AstArr(<<FieldNode(alias, "a",
                       IF shape = "none" THEN <<>>
                       ELSE <<ArgumentNode("x", shape), ArgumentNode("y", "int")>>,
                       IF directive
                       THEN <<AstObj(<<Prop("kind", AstStr("Directive")),
                                       Prop("name", NameNode("include")),
                                       Prop("arguments",
                                            AstArr(<<ArgumentNode("if", "variable")>>)),
                                       Loc>>)>>
                       ELSE <<>>,
                       CASE nesting = "field" ->
                                <<FieldNode("", "c", <<>>, <<>>, <<>>),
                                  FieldNode("", "d", <<>>, <<>>, <<>>)>>
                         [] nesting = "fragment" ->
                                <<AstObj(<<Prop("kind", AstStr("InlineFragment")),
                                           Prop("typeCondition",
                                                AstObj(<<Prop("kind", AstStr("NamedType")),
                                                         Prop("name", NameNode("T")), Loc>>)),
                                           Prop("directives", AstArr(<<>>)),
                                           Prop("selectionSet",
                                                SelectionSetNode(
                                                    <<FieldNode("", "c", <<>>, <<>>, <<>>)>>)),
                                           Loc>>)>>
                         [] OTHER -> <<>>),
             FieldNode("", "b", <<>>, <<>>, <<>>)>>)

Documents ==
    {Selections(alias, shape, directive, nesting) :
        alias \in {"", "z"}, shape \in {"int", "bool", "variable", "list", "object", "none"}, directive \in BOOLEAN,
        nesting \in {"none", "field", "fragment"}}

\* if (value): the value of a property that is there, as a condition
Truthy(val) ==
    \/ val.t \in {"obj", "arr"}
    \/ val.t = "str" /\ val.s # ""
    \/ val.t = "bool" /\ val.s = "true"

RECURSIVE remove(_)
RECURSIVE parse(_)
\* variant: the selections come back in reverse order
parse_reversed(queries) ==
    [queries EXCEPT !.p = [i \in 1..Len(queries.p) |->
                              Prop("", remove(queries.p[Len(queries.p) + 1 - i].v))]]

\* queryParser.js: queries.map(item => remove(item)); the array itself is returned
parse(queries) ==
    [queries EXCEPT !.p = [i \in 1..Len(queries.p) |-> Prop("", remove(queries.p[i].v))]]

\* queryParser.js: the properties name, selectionSet, value, typeCondition
\* and alias are visited as nodes, selections and arguments as arrays of
\* nodes, then the loc of the node is deleted.  A primitive has none of
\* these properties and stays as it is.
remove(node) ==
    IF node.t # "obj" THEN node
    ELSE
        LET visited ==
                [i \in 1..Len(node.p) |->
                    IF node.p[i].k \in {"name", "selectionSet", "value", "typeCondition",
                                        "alias"} /\ Truthy(node.p[i].v)
                    THEN Prop(node.p[i].k, remove(node.p[i].v))
                    ELSE IF node.p[i].k \in {"selections", "arguments"}
                            /\ Truthy(node.p[i].v)
                    THEN Prop(node.p[i].k, parse(node.p[i].v))
                    ELSE node.p[i]]
        IN [node EXCEPT !.p = SelectSeq(visited, LAMBDA pr : pr.k # "loc")]

RECURSIVE deleteKeysFromObject(_, _)
\* key-del with one key without a dot and no options: a copy of the value
\* in which the key is deleted from every object, at every depth; the
\* elements of arrays and the values of the other properties are
\* processed when they are objects or arrays
deleteKeysFromObject(object, keys) ==
    IF object.t \notin {"obj", "arr"} THEN object
    ELSE
        LET kept == SelectSeq(object.p, LAMBDA pr : pr.k # keys)
        IN [object EXCEPT !.p =
               [i \in 1..Len(kept) |-> Prop(kept[i].k, deleteKeysFromObject(kept[i].v, keys))]]

\* the call that removes the location properties from the selections
Canonicalize(lib, selections) ==
    IF lib = "queryParser" THEN parse(selections) ELSE deleteKeysFromObject(selections, "loc")

\* no canonicalizer call is looked at
CanonIdle ==
    /\ library = "none"
    /\ document = AstArr(<<>>)
    /\ canonical = AstArr(<<>>)
    /\ stage = "raw"

(***************************************************************************)
(* The earlier variants of sizeCalculator(db, threshold, validationContext)*)
(* (src/unnamed/part_001, part_002 from line 68, part_003).  The size of   *)
(* a pair is kept as an array of numbers and of the arrays of other pairs; *)
(* arrSum adds the numbers up.  part_001 and part_002 call getEdges for a  *)
(* field with a selection set, part_003 calls the resolver of every field  *)
(* and checks the threshold before it adds the array of a sub-computation. *)
(***************************************************************************)
Num(n) == [t |-> "num", n |-> n, k |-> NoKey]
\* the array of another pair, pushed as an element
ArrOf(k) == [t |-> "arr", n |-> 0, k |-> k]

Entries(f, k) == IF k \in DOMAIN f THEN f[k] ELSE <<>>

RECURSIVE arrSum(_, _)
RECURSIVE arrSumFrom(_, _, _)
\* arrSum(sizeMap.get(k)): the numbers of the array and of the arrays in it
arrSum(sm, k) == arrSumFrom(sm, Entries(sm, k), 1)
arrSumFrom(sm, arr, i) ==
    IF i > Len(arr) THEN 0
    ELSE (IF arr[i].t = "arr" THEN arrSum(sm, arr[i].k) ELSE arr[i].n)
         + arrSumFrom(sm, arr, i + 1)

\* the mutable objects handed through the calls of one callback; ret is
\* the pair whose promise the call returned, NoKey for Promise.resolve()
Legacy ==
    [labels |-> labels, sizeArrays |-> sizeArrays, resultsMap |-> resultsMap,
     resolving |-> resolving, joins |-> joins, threw |-> FALSE, ret |-> NoKey]

CommitLegacy(l) ==
    /\ labels' = l.labels
    /\ sizeArrays' = l.sizeArrays
    /\ resultsMap' = l.resultsMap
    /\ resolving' = l.resolving
    /\ joins' = l.joins

\* sizeMap.add(key, value) of hashtable.js, sizeMap.get(key).push(value) of part_003
AddSize(l, key, entry) ==
    [l EXCEPT !.sizeArrays = Put(@, key, Append(Entries(@, key), entry))]
\* sizeMap.ret(key) of hashtable.js: the array of the key, created when there is none
RetSize(l, key) == [l EXCEPT !.sizeArrays = Put(@, key, Entries(@, key))]
\* structures.resultsMap.get(key).push(tok)
AddResult(l, key, tok) == [l EXCEPT !.resultsMap[key] = Append(@, tok)]

\* the call of getEdges or of the resolver of the field, with the source object
Resolve(l, key, source) ==
    [l EXCEPT !.resolving = Put(@, key, [status |-> "pending", source |-> source])]

RECURSIVE calculate(_, _, _)
RECURSIVE calculateAll(_, _, _, _)
\* part_001, part_002: calculate(u, query, parentType), up to the calls of getEdges
calculate(l, u, query) ==
    LET key == getMapKey(u, query) IN
    IF queryAlreadyConsideredForNode(l.labels, u, query) THEN l
    ELSE
        \* sizeMap.init([u, query]) of part_001: the key has an array afterwards
        LET marked == [l EXCEPT !.labels = markQueryAsConsideredForNode(@, u, query)]
            l1 == IF variant = "part_001" THEN RetSize(marked, key) ELSE marked
        IN IF Len(query) > 1 THEN calculateAll(l1, u, query, 1)
           ELSE IF ~query[1].hasSel THEN AddSize(l1, key, Num(3))
           ELSE IF query[1].kind = "Field" THEN Resolve(l1, key, u.id)
           ELSE IF variant = "part_001" /\ nodeType(u) = query[1].on THEN
               calculate(AddSize(RetSize(l1, getMapKey(u, query[1].sel)), key,
                                 ArrOf(getMapKey(u, query[1].sel))),
                         u, query[1].sel)
           ELSE l1

\* query.map(item => { sizeMap.add([u, query], sizeMap.ret([u, [item]])); ... })
calculateAll(l, u, query, i) ==
    IF i > Len(query) THEN l
    ELSE LET item == getMapKey(u, <<query[i]>>)
         IN calculateAll(calculate(AddSize(RetSize(l, item), getMapKey(u, query), ArrOf(item)),
                                   u, <<query[i]>>),
                         u, query, i + 1)

\* the nodes getEdges resolves to: one per related row
getEdges(u, fieldName) ==
    LET v == Backend(u, fieldName)
    IN IF v.t = "objs" THEN v.l ELSE IF v.t = "obj" THEN <<v.n>> ELSE <<>>

RECURSIVE EdgeLoop(_, _, _, _)
\* result.map(item => ...) of the then-callback of getEdges
EdgeLoop(l, key, result, i) ==
    IF i > Len(result) THEN l
    ELSE LET fieldDef == FieldDef(key.q[1].name)
             item == Node(result[i], fieldDef.typeName)
             sub == getMapKey(item, key.q[1].sel)
             l1 == AddSize(l, key, Num(2))
             l2 == AddSize(RetSize(l1, sub), key, ArrOf(sub))
         IN EdgeLoop(calculate(l2, item, key.q[1].sel), key, result, i + 1)

\* getEdges(...).then(result => ...) of part_001 and part_002
EdgesCallback(l, key, result) ==
    LET l1 == AddSize(l, key,
                      Num(IF FieldDef(key.q[1].name).list THEN 4
                          ELSE IF Len(result) > 0 THEN 2 ELSE 3))
    IN EdgeLoop(l1, key, result, 1)

\* part_003: an array of at most one element is replaced by that element
\* (undefined for the empty array), a longer one becomes the bracketed
\* sequence of its elements; a string is quote-wrapped
formatResultOfScalarTypedField(result) ==
    IF result.t = "arr" /\ Len(result.l) <= 1
    THEN IF result.l = <<>> THEN [t |-> "undefined", s |-> "", a |-> <<>>] ELSE Lit(Quote(result.l[1]))
    ELSE ScalarToken(result)

\* A member of joins is a callback .then(x => ...) of part_003 waiting for
\* the promise dep that populateDataStructures returned for the pair c, item
\* i of the pair p; list tells that "]" is pushed to the results of p after
\* its last callback.

RECURSIVE populateDataStructures_p3(_, _, _, _)
RECURSIVE updateDataStructuresForAllSubqueries_p3(_, _, _, _, _, _)

\* part_003: the reference to fieldInfo, declared nowhere, throws
calculateInlineFragment(l, key, u, query) ==
    IF nodeType(u) = query[1].on
    THEN [AddResult(l, key, Ref(getMapKey(u, query[1].sel))) EXCEPT !.threw = TRUE]
    ELSE [l EXCEPT !.ret = NoKey]

\* part_003: populateDataStructures up to the calls of the resolvers
populateDataStructures_p3(l, u, query, source) ==
    LET key == getMapKey(u, query) IN
    IF queryAlreadyConsideredForNode(l.labels, u, query) THEN [l EXCEPT !.ret = NoKey]
    ELSE
        LET l1 == [RetSize(l, key) EXCEPT
                      !.labels = markQueryAsConsideredForNode(@, u, query),
                      !.resultsMap = initializeDataStructures(@, key)]
        IN IF Len(query) > 1 THEN
               [updateDataStructuresForAllSubqueries_p3(l1, query, key, u, source, 1)
                   EXCEPT !.ret = key]
           ELSE IF ~query[1].hasSel \/ query[1].kind = "Field" THEN
               [Resolve(l1, key, source) EXCEPT !.ret = key]
           ELSE calculateInlineFragment(l1, key, u, query)

\* part_003: query.map((subquery, index) => ...), from the item at position i on
updateDataStructuresForAllSubqueries_p3(l, query, key, u, source, i) ==
    IF i > Len(query) \/ l.threw THEN l
    ELSE
        LET sub == getMapKey(u, <<query[i]>>)
            la == IF i # 1 THEN AddResult(AddSize(l, key, Num(1)), key, Lit(",")) ELSE l
            lb == AddResult(la, key, Ref(sub))
            lc == populateDataStructures_p3(lb, u, <<query[i]>>, source)
            ld == IF lc.threw THEN lc
                  ELSE [lc EXCEPT !.joins = @ \cup {[p |-> key, i |-> i, c |-> sub, dep |-> lc.ret, list |-> FALSE]}]
        IN updateDataStructuresForAllSubqueries_p3(ld, query, key, u, source, i + 1)

\* part_003: calculateSingleNode for the item i of the result of the field of key
calculateSingleNode(l, key, item, i, list) ==
    LET relatedNode == createNode(item, FieldDef(key.q[1].name))
        sub == getMapKey(relatedNode, key.q[1].sel)
        l1 == AddSize(l, key, Num(2))
        l2 == AddResult(AddResult(AddResult(l1, key, Lit("{")), key, Ref(sub)), key, Lit("}"))
        l3 == populateDataStructures_p3(l2, relatedNode, key.q[1].sel, item)
    IN IF l3.threw THEN l3
       ELSE [l3 EXCEPT !.joins = @ \cup {[p |-> key, i |-> i, c |-> sub, dep |-> l3.ret, list |-> list]}]

RECURSIVE RelatedNodesLoop(_, _, _, _)
\* part_003: src.map((srcItem, index) => ...) of calculateRelatedNodes
RelatedNodesLoop(l, key, src, i) ==
    IF i > Len(src) \/ l.threw THEN l
    ELSE LET la == IF i # 1 THEN AddResult(l, key, Lit(",")) ELSE l
         IN RelatedNodesLoop(calculateSingleNode(la, key, src[i], i, TRUE), key, src, i + 1)

\* part_003: calculateRelatedNodes; the "]" of an empty array is pushed by
\* the continuation of Promise.all([]), taken together with this callback
calculateRelatedNodes(l, src, key) ==
    IF src.t = "objs" THEN
        LET l1 == RelatedNodesLoop(AddResult(l, key, Lit("[")), key, src.l, 1)
        IN IF src.l = <<>> THEN AddResult(l1, key, Lit("]")) ELSE l1
    ELSE IF src.t = "null" THEN AddResult(AddSize(l, key, Num(2)), key, Lit("null"))
    ELSE calculateSingleNode(l, key, src.n, 1, FALSE)

\* part_003: resolveField(...).then(...) of a scalar field and of a field
\* with a selection set
ThenCallback_p3(l, key, result) ==
    LET fieldName == key.q[1].name
        l1 == AddResult(l, key, Lit(NameTok(fieldName)))
    IN IF ~key.q[1].hasSel THEN
           AddSize(AddResult(l1, key, formatResultOfScalarTypedField(result)), key, Num(3))
       ELSE calculateRelatedNodes(
                AddSize(l1, key, Num(IF FieldDef(fieldName).list THEN 4
                                     ELSE IF result.t # "null" THEN 2 ELSE 3)),
                result, key)

\* part_003: .then(x => { ... }) after populateDataStructures of a
\* sub-computation; when queryResultSize >= sizethreshold the array of the
\* sub-computation is not added
JoinCallback(l, j) ==
    LET l1 == IF arrSum(l.sizeArrays, j.p) >= threshold THEN l
              ELSE AddSize(l, j.p, ArrOf(j.c))
        rest == l.joins \ {j}
        l2 == [l1 EXCEPT !.joins = rest]
    IN IF j.list /\ ~\E o \in rest : o.p = j.p THEN AddResult(l2, j.p, Lit("]")) ELSE l2

\* the promise of the first computation of a pair is resolved
PairResolved(k) ==
    /\ k \in DOMAIN resolving => resolving[k].status = "done"
    /\ ~\E j \in joins : j.p = k

\* no run of an earlier variant is looked at
LegacyIdle ==
    /\ variant = "none"
    /\ definitions = 1
    /\ labels = <<>>
    /\ sizeArrays = <<>>
    /\ resultsMap = <<>>
    /\ resolving = <<>>
    /\ joins = {}
    /\ validationContext = [errors |-> <<>>]
    /\ returned = "nothing"
    /\ phase = "init"

(***************************************************************************)
(* Initial state: a request has been received, nothing has run yet         *)
(***************************************************************************)
NoResponse == [resultSize |-> 0, cacheHits |-> 0, errorCode |-> "none",
               produced |-> "no", data |-> JNone, error |-> NoErr]

\* what is the same for every request
InitStructures ==
    /\ errorCode = NULL
    /\ earlyTerminationTimestamp = FALSE
    /\ labelMap = <<>>
    /\ sizeMap = <<>>
    /\ resultMap = <<>>
    /\ hits = 0
    /\ globalSize = 0
    /\ queue = <<>>
    /\ calls = <<>>
    /\ pending = <<>>
    /\ hitAdds = <<>>
    /\ timer = "none"
    /\ pc = "init"
    /\ rootPromise = PConst(0)
    /\ response = NoResponse
    /\ dispatchCount = <<>>
    /\ resolverCalls = <<>>

Init ==
    /\ scenario \in Scenarios
    /\ threshold \in 0..MaxThreshold
    /\ terminateEarly \in BOOLEAN
    /\ timeout \in BOOLEAN
    /\ mayFail \in BOOLEAN
    /\ otherActive = 0
    /\ InitStructures
    /\ CanonIdle
    /\ LegacyIdle

\* a request with more sibling fields than the gateway has slots, no limits set
InitWide ==
    /\ scenario = "wide"
    /\ threshold = 0
    /\ terminateEarly = FALSE
    /\ timeout = FALSE
    /\ mayFail = FALSE
    /\ otherActive = 0
    /\ InitStructures
    /\ CanonIdle
    /\ LegacyIdle

(***************************************************************************)
(* Actions                                                                 *)
(***************************************************************************)
\* The synchronous part of queryCalculator: the structures are created, the
\* timer is set, populateDataStructures runs on the root.
queryCalculator ==
    /\ pc = "init"
    /\ \E s \in {populateDataStructures(Structures, getRootNode, Query(scenario), 0)} :
          /\ Commit(s)
          /\ rootPromise' = s.ret
    /\ timer' = IF timeout THEN "armed" ELSE "none"
    /\ pc' = "running"
    /\ UNCHANGED <<config, response, resolverCalls>>

\* the number of tasks of this evaluation limit is running
activeCount == Cardinality({k \in DOMAIN calls : calls[k].status \in {"running", "noop"}})

\* variant: the budget is compared with <=
SlotFree_offByOne == activeCount + otherActive <= Concurrency

\* limit has a free slot; limit is one object of the module, its slots are
\* taken by the tasks of every invocation
SlotFree == activeCount + otherActive < Concurrency

\* limit starts the oldest waiting task: the function given by resolveField runs
StartTask ==
    /\ queue # <<>>
    /\ SlotFree
    /\ LET k == Head(queue)
           s == [Structures EXCEPT !.queue = Tail(@)]
       IN IF checkTermination(s)
          THEN /\ Commit([checkTerminationEffect(s) EXCEPT !.calls[k].status = "noop"])
               /\ UNCHANGED resolverCalls
          ELSE /\ Commit([s EXCEPT !.calls[k].status = "running"])
               /\ resolverCalls' = Put(resolverCalls, k, Count(resolverCalls, k) + 1)
    /\ UNCHANGED <<config, timer, pc, rootPromise, response>>

\* variant: the promise of a suppressed task is never resolved
TaskSettle_suppressedHangs(k) ==
    /\ k \in DOMAIN calls
    /\ \/ /\ calls[k].status = "running"
          /\ calls' = [calls EXCEPT ![k].status = "settled",
                                    ![k].result = Backend(calls[k].parent, k.q[1].name)]
          /\ UNCHANGED sizeMap
       \/ /\ calls[k].status = "running"
          /\ mayFail
          /\ calls' = [calls EXCEPT ![k].status = "failed"]
          /\ sizeMap' = [sizeMap EXCEPT ![k] = Rejected(Err("ResolverError", k))]
    /\ UNCHANGED <<config, errorCode, earlyTerminationTimestamp, labelMap, resultMap, hits,
                   globalSize, queue, pending, hitAdds, timer, pc, rootPromise, response,
                   dispatchCount, resolverCalls>>

\* the promise of a running task settles: the backend answers or fails, a
\* suppressed task resolves to null
TaskSettle(k) ==
    /\ k \in DOMAIN calls
    /\ \/ /\ calls[k].status = "running"
          /\ calls' = [calls EXCEPT ![k].status = "settled",
                                    ![k].result = Backend(calls[k].parent, k.q[1].name)]
          /\ UNCHANGED sizeMap
       \/ /\ calls[k].status = "noop"
          /\ calls' = [calls EXCEPT ![k].status = "settled", ![k].result = VNull]
          /\ UNCHANGED sizeMap
       \/ /\ calls[k].status = "running"
          /\ mayFail
          /\ calls' = [calls EXCEPT ![k].status = "failed"]
          /\ sizeMap' = [sizeMap EXCEPT ![k] = Rejected(Err("ResolverError", k))]
    /\ UNCHANGED <<config, errorCode, earlyTerminationTimestamp, labelMap, resultMap, hits,
                   globalSize, queue, pending, hitAdds, timer, pc, rootPromise, response,
                   dispatchCount, resolverCalls>>

\* the then-callback of resolveField(...) runs with the result
ThenResult(k) ==
    /\ k \in DOMAIN calls
    /\ calls[k].status = "settled"
    /\ \E s \in {ThenCallback([Structures EXCEPT !.calls[k].status = "done"], k,
                                 calls[k].result)} : Commit(s)
    /\ UNCHANGED <<config, timer, pc, rootPromise, response, resolverCalls>>

\* every size callback registered on the promise of a sub-computation has run
HitAddsDone(d) == d.t = "key" => Count(hitAdds, d.k) = 0

\* the continuation of Promise.all (or of the single item) of key k
Continuation(k) ==
    /\ k \in DOMAIN pending
    /\ LET deps == pending[k].deps
           rest == [x \in DOMAIN pending \ {k} |-> pending[x]]
       IN \/ /\ \A i \in 1..Len(deps) :
                    DepState(sizeMap, deps[i]) = "fulfilled" /\ HitAddsDone(deps[i])
             /\ sizeMap' = [sizeMap EXCEPT ![k] =
                    Fulfilled(JoinSize(pending[k].kind,
                                       [i \in 1..Len(deps) |-> DepValue(sizeMap, deps[i])]))]
             /\ resultMap' = IF pending[k].kind = "list"
                             THEN [resultMap EXCEPT ![k] = Append(@, Lit("]"))]
                             ELSE resultMap
             /\ pending' = rest
          \/ \E i \in 1..Len(deps) :
                /\ DepState(sizeMap, deps[i]) = "rejected"
                /\ sizeMap' = [sizeMap EXCEPT ![k] = Rejected(DepError(sizeMap, deps[i]))]
                /\ pending' = rest
                /\ UNCHANGED resultMap
    /\ UNCHANGED <<config, errorCode, earlyTerminationTimestamp, labelMap, hits, globalSize,
                   queue, calls, hitAdds, timer, pc, rootPromise, response, dispatchCount,
                   resolverCalls>>

\* variant: the callback of a memo hit leaves the global size as it is
HitAdd_addsNothing(k) ==
    /\ Count(hitAdds, k) > 0
    /\ sizeMap[k].state = "fulfilled"
    /\ hitAdds' = [hitAdds EXCEPT ![k] = @ - 1]
    /\ UNCHANGED <<config, errorCode, earlyTerminationTimestamp, labelMap, sizeMap,
                   resultMap, hits, globalSize, queue, calls, pending, timer, pc,
                   rootPromise, response, dispatchCount, resolverCalls>>

\* sizeMap.get(mapKey).then(size => structures.globalSize += size) of a memo hit
HitAdd(k) ==
    /\ Count(hitAdds, k) > 0
    /\ sizeMap[k].state = "fulfilled"
    /\ globalSize' = globalSize + sizeMap[k].value
    /\ hitAdds' = [hitAdds EXCEPT ![k] = @ - 1]
    /\ UNCHANGED <<config, errorCode, earlyTerminationTimestamp, labelMap, sizeMap,
                   resultMap, hits, queue, calls, pending, timer, pc, rootPromise,
                   response, dispatchCount, resolverCalls>>


\* variant: the timer callback leaves an error code that is already set
TimerFire_keepsErrorCode ==
    /\ timer = "armed"
    /\ pc # "init"
    /\ ~(pc = "running" /\ DepState(sizeMap, rootPromise) # "pending")
    /\ errorCode' = IF errorCode = NULL THEN "MAX_QUERY_TIME_EXCEEDED" ELSE errorCode
    /\ timer' = "fired"
    /\ UNCHANGED <<config, earlyTerminationTimestamp, labelMap, sizeMap, resultMap, hits,
                   globalSize, queue, calls, pending, hitAdds, pc, rootPromise, response,
                   dispatchCount, resolverCalls>>

\* The timer callback.  It is a task of the event loop: it does not run
\* between the settling of the root promise and the final callback.
TimerFire ==
    /\ timer = "armed"
    /\ pc # "init"
    /\ ~(pc = "running" /\ DepState(sizeMap, rootPromise) # "pending")
    /\ errorCode' = "MAX_QUERY_TIME_EXCEEDED"
    /\ timer' = "fired"
    /\ UNCHANGED <<config, earlyTerminationTimestamp, labelMap, sizeMap, resultMap, hits,
                   globalSize, queue, calls, pending, hitAdds, pc, rootPromise, response,
                   dispatchCount, resolverCalls>>

\* variant: the flag set during the evaluation is not looked at
FinalErrorCode_ignoresFlag(resultSize) ==
    IF threshold # 0 /\ resultSize > threshold THEN "RESULT_SIZE_LIMIT_EXCEEDED"
    ELSE "OK"

\* variant: the size is compared with the threshold also when it is 0
FinalErrorCode_zeroIsALimit(resultSize) ==
    IF errorCode # NULL THEN errorCode
    ELSE IF resultSize > threshold THEN "RESULT_SIZE_LIMIT_EXCEEDED"
    ELSE "OK"

\* response.errorCode as the final callback decides it
FinalErrorCode(resultSize) ==
    IF errorCode # NULL THEN errorCode
    ELSE IF threshold # 0 /\ resultSize > threshold THEN "RESULT_SIZE_LIMIT_EXCEEDED"
    ELSE "OK"

\* variant: the response is returned whatever its error code
ThrowsApolloError_never(code) == FALSE

\* whether the final callback throws the ApolloError
ThrowsApolloError(code) == code # "OK"

\* The final then-callback of queryCalculator, run when the root promise is
\* fulfilled.
Finish ==
    /\ pc = "running"
    /\ DepState(sizeMap, rootPromise) = "fulfilled"
    /\ HitAddsDone(rootPromise)
    /\ \E produced \in {produceResult(resultMap, getMapKey(getRootNode, Query(scenario)))} :
       \E parsed \in {JSONparse(produced.text)} :
       LET resultSize == DepValue(sizeMap, rootPromise)
           code == FinalErrorCode(resultSize)
           base == [NoResponse EXCEPT !.resultSize = resultSize, !.cacheHits = hits,
                                      !.errorCode = code]
       IN IF ThrowsApolloError(code) THEN
              /\ pc' = "rejected"
              /\ response' = [base EXCEPT !.error = Err("ApolloError", NoKey)]
          ELSE IF ~produced.ok THEN
              /\ pc' = "rejected"
              /\ response' = [base EXCEPT !.produced = "threw",
                                          !.error = Err(produced.error, NoKey)]
          ELSE IF ~parsed.ok THEN
              /\ pc' = "rejected"
              /\ response' = [base EXCEPT !.produced = "text",
                                          !.error = Err("SyntaxError", NoKey)]
          ELSE
              /\ pc' = "resolved"
              /\ response' = [base EXCEPT !.produced = "text", !.data = parsed.val]
    /\ timer' = IF timer = "armed" THEN "cleared" ELSE timer
    /\ UNCHANGED <<config, errorCode, earlyTerminationTimestamp, labelMap, sizeMap,
                   resultMap, hits, globalSize, queue, calls, pending, hitAdds,
                   rootPromise, dispatchCount, resolverCalls>>

\* The root promise is rejected: the final callback is skipped and the
\* promise returned by queryCalculator rejects with the same error.
Reject ==
    /\ pc = "running"
    /\ DepState(sizeMap, rootPromise) = "rejected"
    /\ pc' = "rejected"
    /\ response' = [NoResponse EXCEPT !.error = DepError(sizeMap, rootPromise)]
    /\ UNCHANGED <<config, errorCode, earlyTerminationTimestamp, labelMap, sizeMap,
                   resultMap, hits, globalSize, queue, calls, pending, hitAdds, timer,
                   rootPromise, dispatchCount, resolverCalls>>

Next ==
    \/ queryCalculator
    \/ StartTask
    \/ \E k \in DOMAIN calls : TaskSettle(k)
    \/ \E k \in DOMAIN calls : ThenResult(k)
    \/ \E k \in DOMAIN pending : Continuation(k)
    \/ \E k \in DOMAIN hitAdds : HitAdd(k)
    \/ TimerFire
    \/ Finish
    \/ Reject

Spec == Init /\ [][Next]_vars

\* the callbacks of an evaluation without timer, memo hit and failure
NextWide ==
    \/ queryCalculator
    \/ StartTask
    \/ \E k \in DOMAIN calls : TaskSettle(k)
    \/ \E k \in DOMAIN calls : ThenResult(k)
    \/ \E k \in DOMAIN pending : Continuation(k)
    \/ Finish

SpecWide == InitWide /\ [][NextWide]_vars

(***************************************************************************)
(* Evaluations of the same process: limit is created once, when the module *)
(* is loaded, and every invocation of queryCalculator hands its tasks to   *)
(* it.  The tasks of the other invocations are counted, not followed.      *)
(***************************************************************************)
\* limit starts a task of another invocation (no task of this one waits)
OtherStart ==
    /\ queue = <<>>
    /\ SlotFree
    /\ otherActive' = otherActive + 1
    /\ UNCHANGED <<scenario, threshold, terminateEarly, timeout, mayFail, errorCode,
                   earlyTerminationTimestamp, labelMap, sizeMap, resultMap, hits,
                   globalSize, queue, calls, pending, hitAdds, timer, pc, rootPromise,
                   response, dispatchCount, resolverCalls,
                   canonVars, legacyVars>>

\* the backend call of a task of another invocation settles
OtherSettle ==
    /\ otherActive > 0
    /\ otherActive' = otherActive - 1
    /\ UNCHANGED <<scenario, threshold, terminateEarly, timeout, mayFail, errorCode,
                   earlyTerminationTimestamp, labelMap, sizeMap, resultMap, hits,
                   globalSize, queue, calls, pending, hitAdds, timer, pc, rootPromise,
                   response, dispatchCount, resolverCalls,
                   canonVars, legacyVars>>

\* a request evaluated while other requests are evaluated, no limits set
InitShared ==
    /\ scenario \in {"leaf", "shared"}
    /\ threshold = 0
    /\ terminateEarly = FALSE
    /\ timeout = FALSE
    /\ mayFail = FALSE
    /\ otherActive = 0
    /\ InitStructures
    /\ CanonIdle
    /\ LegacyIdle

NextShared ==
    \/ queryCalculator
    \/ OtherStart
    \/ OtherSettle
    \/ StartTask
    \/ \E k \in DOMAIN calls : TaskSettle(k)
    \/ \E k \in DOMAIN calls : ThenResult(k)
    \/ \E k \in DOMAIN pending : Continuation(k)
    \/ \E k \in DOMAIN hitAdds : HitAdd(k)
    \/ Finish

SpecShared == InitShared /\ [][NextShared]_vars

(***************************************************************************)
(* Scheduling: the event loop runs every callback that is ready, and every *)
(* backend call that was started settles.  The timer need not fire.        *)
(***************************************************************************)
Progress ==
    \/ queryCalculator
    \/ StartTask
    \/ \E k \in DOMAIN calls : TaskSettle(k)
    \/ \E k \in DOMAIN calls : ThenResult(k)
    \/ \E k \in DOMAIN pending : Continuation(k)
    \/ \E k \in DOMAIN hitAdds : HitAdd(k)
    \/ Finish
    \/ Reject

\* every query, without a threshold and with one that most results exceed
InitLive ==
    /\ scenario \in Scenarios
    /\ threshold \in {0, LiveThreshold}
    /\ terminateEarly \in BOOLEAN
    /\ timeout \in BOOLEAN
    /\ mayFail \in BOOLEAN
    /\ otherActive = 0
    /\ InitStructures
    /\ CanonIdle
    /\ LegacyIdle

SpecLive == InitLive /\ [][Next]_vars /\ WF_vars(Progress)

(***************************************************************************)
(* The canonicalizer applied to a document, and to its own result          *)
(***************************************************************************)
\* calculate.js has not been called
CalcStructuresIdle ==
    /\ terminateEarly = FALSE
    /\ timeout = FALSE
    /\ mayFail = FALSE
    /\ otherActive = 0
    /\ InitStructures

InitCanon ==
    /\ scenario = "leaf"
    /\ threshold = 0
    /\ CalcStructuresIdle
    /\ LegacyIdle
    /\ library \in {"queryParser", "key-del"}
    /\ document \in Documents
    /\ canonical = AstArr(<<>>)
    /\ stage = "raw"

\* the selections of the document are canonicalized
CanonicalizeDocument ==
    /\ stage = "raw"
    /\ canonical' = Canonicalize(library, document)
    /\ stage' = "once"
    /\ UNCHANGED <<calcVars, legacyVars, library, document>>

\* the result is canonicalized again
CanonicalizeAgain ==
    /\ stage = "once"
    /\ canonical' = Canonicalize(library, canonical)
    /\ stage' = "twice"
    /\ UNCHANGED <<calcVars, legacyVars, library, document>>

NextCanon == CanonicalizeDocument \/ CanonicalizeAgain

SpecCanon == InitCanon /\ [][NextCanon]_vars

(***************************************************************************)
(* The earlier variants of sizeCalculator                                  *)
(***************************************************************************)
InitLegacy ==
    /\ scenario \in Scenarios
    /\ threshold \in 0..MaxThreshold
    /\ CalcStructuresIdle
    /\ CanonIdle
    /\ variant \in {"part_001", "part_002", "part_003"}
    /\ definitions \in {1, 2}
    /\ labels = <<>>
    /\ sizeArrays = <<>>
    /\ resultsMap = <<>>
    /\ resolving = <<>>
    /\ joins = {}
    /\ validationContext = [errors |-> <<>>]
    /\ returned = "nothing"
    /\ phase = "init"

LegacyRoot == getMapKey(getRootNode, Query(scenario))

\* what the call resolves to: part_003 wraps the validation context
Resolution == IF variant = "part_003" THEN "data" ELSE "validationContext"

\* variant: a document of several definitions is calculated like any other
TooManyDefinitions_never(n) == FALSE

\* documentAST.definitions.length > 1
TooManyDefinitions(n) == n > 1

\* queryCalculator up to its return: the check of the definitions, then the
\* calculation from the root node up to the calls of the backend
LegacyCall ==
    /\ phase = "init"
    /\ IF TooManyDefinitions(definitions)
       THEN /\ returned' = Resolution
            /\ phase' = IF variant = "part_003" THEN "returned" ELSE "resolved"
            /\ UNCHANGED <<labels, sizeArrays, resultsMap, resolving, joins>>
       ELSE \E l \in {IF variant = "part_003"
                      THEN populateDataStructures_p3(Legacy, getRootNode, Query(scenario), 0)
                      ELSE calculate(Legacy, getRootNode, Query(scenario))} :
                /\ CommitLegacy(l)
                /\ phase' = IF l.threw THEN "threw" ELSE "running"
                /\ returned' = IF l.threw THEN "ReferenceError" ELSE returned
    /\ UNCHANGED <<calcVars, canonVars, variant, definitions, validationContext>>

\* part_001, part_002: the promise of getEdges of the pair k is resolved
LegacyEdges(k) ==
    /\ phase = "running"
    /\ variant \in {"part_001", "part_002"}
    /\ k \in DOMAIN resolving
    /\ resolving[k].status = "pending"
    /\ CommitLegacy(EdgesCallback([Legacy EXCEPT !.resolving[k].status = "done"], k,
                                  getEdges(resolving[k].source, k.q[1].name)))
    /\ UNCHANGED <<calcVars, canonVars, variant, definitions, validationContext, returned,
                   phase>>

\* part_003: the promise of the resolver of the pair k is resolved
LegacyResolved(k) ==
    /\ phase = "running"
    /\ variant = "part_003"
    /\ k \in DOMAIN resolving
    /\ resolving[k].status = "pending"
    /\ \E l \in {ThenCallback_p3([Legacy EXCEPT !.resolving[k].status = "done"], k,
                                 Backend(resolving[k].source, k.q[1].name))} :
           /\ CommitLegacy(l)
           /\ phase' = IF l.threw THEN "rejected" ELSE phase
           /\ returned' = IF l.threw THEN "ReferenceError" ELSE returned
    /\ UNCHANGED <<calcVars, canonVars, variant, definitions, validationContext>>

\* part_003: the callback after the calculation of a sub-computation
LegacyJoin(j) ==
    /\ phase = "running"
    /\ j \in joins
    /\ j.dep = NoKey \/ PairResolved(j.dep)
    /\ CommitLegacy(JoinCallback(Legacy, j))
    /\ UNCHANGED <<calcVars, canonVars, variant, definitions, validationContext, returned,
                   phase>>

\* the final callback: the sizes are summed from the root pair and compared
LegacyFinish ==
    /\ phase = "running"
    /\ IF variant = "part_003" THEN PairResolved(LegacyRoot)
       ELSE \A k \in DOMAIN resolving : resolving[k].status = "done"
    /\ \E querySize \in {arrSum(sizeArrays, LegacyRoot)} :
           validationContext' =
               IF querySize > threshold
               THEN [validationContext EXCEPT !.errors = Append(@, querySize)]
               ELSE validationContext
    /\ returned' = Resolution
    /\ phase' = "resolved"
    /\ UNCHANGED <<calcVars, canonVars, variant, definitions, labels, sizeArrays, resultsMap,
                   resolving, joins>>

NextLegacy ==
    \/ LegacyCall
    \/ \E k \in DOMAIN resolving : LegacyEdges(k)
    \/ \E k \in DOMAIN resolving : LegacyResolved(k)
    \/ \E j \in joins : LegacyJoin(j)
    \/ LegacyFinish

SpecLegacy == InitLegacy /\ [][NextLegacy]_vars

(***************************************************************************)
(* The pairs of a query, from the query and the data alone                 *)
(***************************************************************************)
\* the pairs the branch dispatch of a pair refers to, in order
Children(k) ==
    LET item == k.q[1]
        v == Backend(k.u.id, item.name)
        fieldDef == FieldDef(item.name)
    IN IF Len(k.q) > 1 THEN [i \in 1..Len(k.q) |-> getMapKey(k.u, <<k.q[i]>>)]
       ELSE IF ~item.hasSel THEN <<>>
       ELSE IF item.kind = "InlineFragment" THEN
           IF nodeType(k.u) = item.on THEN <<getMapKey(k.u, item.sel)>> ELSE <<>>
       ELSE IF v.t = "null" THEN <<>>
       ELSE IF v.t = "objs" THEN
           [i \in 1..Len(v.l) |-> getMapKey(createNode(v.l[i], fieldDef), item.sel)]
       ELSE <<getMapKey(createNode(v.n, fieldDef), item.sel)>>

RECURSIVE Occurrences(_)
RECURSIVE OccurrencesOfAll(_, _)
\* every occurrence of a pair in the evaluation of k without sharing
Occurrences(k) == <<k>> \o OccurrencesOfAll(Children(k), 1)
OccurrencesOfAll(ks, i) ==
    IF i > Len(ks) THEN <<>> ELSE Occurrences(ks[i]) \o OccurrencesOfAll(ks, i + 1)

RootKey(name) == getMapKey(getRootNode, Query(name))
Pairs(name) == {Occurrences(RootKey(name))[i] : i \in 1..Len(Occurrences(RootKey(name)))}

RECURSIVE SumChildren(_)
SumChildren(ks) ==
    IF ks = {} THEN 0
    ELSE LET k == CHOOSE x \in ks : TRUE IN Len(Children(k)) + SumChildren(ks \ {k})

\* the occurrences of every pair minus 1, summed over the pairs
OccurrencesMinusOne(name) == Len(Occurrences(RootKey(name))) - Cardinality(Pairs(name))
\* the same, counting only the occurrences the traversal reaches: the
\* sub-selections below a revisited pair are not traversed again
ReachedMinusOne(name) == (1 + SumChildren(Pairs(name))) - Cardinality(Pairs(name))

RECURSIVE CompleteSize(_)
\* The size the promise of a pair resolves to when nothing is terminated and
\* no call fails: the sizes the branches of populateDataStructures return.
CompleteSize(k) ==
    LET item == k.q[1]
        v == Backend(k.u.id, item.name)
        kids == Children(k)
    IN IF Len(k.q) > 1 THEN
           JoinSize("concat", [i \in 1..Len(kids) |-> CompleteSize(kids[i])])
       ELSE IF ~item.hasSel THEN ScalarSize(v)
       ELSE IF item.kind = "InlineFragment" THEN
           IF kids = <<>> THEN 0 ELSE CompleteSize(kids[1])
       ELSE IF v.t = "null" THEN 1 + 2
       ELSE IF v.t = "objs" THEN
           JoinSize("list", [i \in 1..Len(kids) |-> CompleteSize(kids[i]) + 2])
       ELSE JoinSize("single", <<CompleteSize(kids[1]) + 2>>)

(***************************************************************************)
(* The token list of a pair in source order                                *)
(***************************************************************************)
RECURSIVE ItemTokens(_, _, _)
\* references to the pairs ks from position i on, separated by commas, each
\* in braces if braces is set
ItemTokens(ks, i, braces) ==
    IF i > Len(ks) THEN <<>>
    ELSE (IF i # 1 THEN <<Lit(",")>> ELSE <<>>)
         \o (IF braces THEN <<Lit("{"), Ref(ks[i]), Lit("}")>> ELSE <<Ref(ks[i])>>)
         \o ItemTokens(ks, i + 1, braces)

\* selection items in selection order; for a field its name, then the value,
\* for a list the elements in array order between the brackets
ExpectedTokens(k) ==
    LET item == k.q[1]
        v == Backend(k.u.id, item.name)
        kids == Children(k)
    IN IF Len(k.q) > 1 THEN ItemTokens(kids, 1, FALSE)
       ELSE IF ~item.hasSel THEN <<Lit(NameTok(item.name)), ScalarToken(v)>>
       ELSE IF item.kind = "InlineFragment" THEN ItemTokens(kids, 1, FALSE)
       ELSE IF v.t = "null" THEN <<Lit(NameTok(item.name)), Lit("null")>>
       ELSE IF v.t = "objs" THEN
           <<Lit(NameTok(item.name)), Lit("[")>> \o ItemTokens(kids, 1, TRUE) \o <<Lit("]")>>
       ELSE <<Lit(NameTok(item.name))>> \o ItemTokens(kids, 1, TRUE)


(***************************************************************************)
(* Properties                                                              *)
(***************************************************************************)
Settled == pc \in {"resolved", "rejected"}
SizeLimitCodes == {"RESULT_SIZE_LIMIT_EXCEEDED", "EARLY_TERMINATION_RESULT_SIZE_LIMIT_EXCEEDED"}
ErrorCodes == SizeLimitCodes \cup {"MAX_QUERY_TIME_EXCEEDED"}
\* the final callback ran and no termination had been flagged
FinishedUnterminated == response.errorCode \in {"OK", "RESULT_SIZE_LIMIT_EXCEEDED"}
InFlight == {k \in DOMAIN calls : calls[k].status = "running"}

\* C1: within one invocation the branch dispatch of populateDataStructures
\* runs at most once for every (node, sub-selection) pair, however often the
\* pair is reached and in whatever order the resolver calls complete.
C1_DispatchAtMostOnce == \A k \in DOMAIN dispatchCount : dispatchCount[k] <= 1

\* a pair revisited while its first computation is still in flight
C1_Witness ==
    \E k \in DOMAIN hitAdds :
        hitAdds[k] > 0 /\ sizeMap[k].state = "pending" /\ dispatchCount[k] = 1

\* C2 as stated: without termination the resolver is invoked at most once
\* for a pair, and cacheHits is the number of occurrences of every pair in
\* the query minus 1, summed over the pairs.
C2_HitsAreOccurrences ==
    /\ \A k \in DOMAIN resolverCalls : resolverCalls[k] <= 1
    /\ FinishedUnterminated => response.cacheHits = OccurrencesMinusOne(scenario)

\* C2 amended: without termination the resolver is invoked at most once for
\* a pair, and cacheHits is the number of times a pair is reached by the
\* traversal minus 1, summed over the pairs; occurrences below a revisited
\* pair are not reached and not counted.
C2_HitsAreReachedOccurrences ==
    /\ \A k \in DOMAIN resolverCalls : resolverCalls[k] <= 1
    /\ FinishedUnterminated => response.cacheHits = ReachedMinusOne(scenario)

\* an evaluation that finished with a revisited pair
C2_Witness ==
    /\ response.errorCode = "OK"
    /\ response.cacheHits >= 1
    /\ \E k \in DOMAIN resolverCalls : resolverCalls[k] = 1 /\ Count(hitAdds, k) = 0
                                        /\ k \in DOMAIN hitAdds

\* C3: without deadline and resolver failure, a threshold below the size of
\* the result ends with a size-limit error code and a threshold at or above
\* it ends with OK (thresholds from 1 on: 0 switches the limit off).
C3_ThresholdMonotonic ==
    (Settled /\ ~timeout /\ ~mayFail) =>
        /\ (threshold >= 1 /\ threshold < ActualSize(scenario))
               => response.errorCode \in SizeLimitCodes
        /\ threshold >= ActualSize(scenario) => response.errorCode = "OK"

\* C4: whenever the evaluation ends with errorCode OK, the text of
\* produceResult in the outer braces is valid JSON and denotes the object a
\* direct execution of the query returns.
C4_RoundTrip ==
    response.errorCode = "OK" =>
        /\ response.produced = "text"
        /\ response.data = Execute(scenario)

\* C5: with errorCode OK, resultSize is the number of symbols of the text
\* produced from the root key.
C5_SizeIsSymbolCount ==
    (response.errorCode = "OK" /\ response.produced = "text") =>
        response.resultSize = SymbolCount(produceResult(resultMap, RootKey(scenario)).text)

\* C6 as stated: produceResult runs and data is returned only when the
\* final errorCode is OK, that is no termination was flagged and the size
\* did not exceed the threshold.
C6_ProducedOnlyWithinThreshold ==
    (response.produced # "no" \/ response.data # JNone \/ pc = "resolved") =>
        /\ response.errorCode = "OK"
        /\ errorCode = NULL
        /\ response.resultSize <= threshold

\* C6 amended: produceResult runs and data is returned only when the final
\* errorCode is OK, that is no termination was flagged and the size did not
\* exceed the threshold or the threshold is 0 (no limit); on every other
\* outcome the materializer is not run and no data is returned.
C6_ProducedOnlyWhenOK ==
    /\ (response.produced # "no" \/ response.data # JNone \/ pc = "resolved") =>
           /\ response.errorCode = "OK"
           /\ errorCode = NULL
           /\ (threshold = 0 \/ response.resultSize <= threshold)
    /\ (Settled /\ response.errorCode # "OK") =>
           (response.produced = "no" /\ response.data = JNone)

\* data returned under a threshold that is set
C6_Witness ==
    /\ pc = "resolved"
    /\ response.data # JNone
    /\ threshold > 0

\* C7 as stated: a size-limit or deadline outcome is a field of a normally
\* returned response; only a resolver failure makes the evaluation reject.
C7_ErrorCodeReturned ==
    /\ response.errorCode \in ErrorCodes => pc = "resolved"
    /\ pc = "rejected" => response.error.type = "ResolverError"

\* C7 amended: a size-limit or deadline outcome reaches the caller as a
\* rejection with an ApolloError that carries the response with its
\* errorCode field; a response is returned normally only with errorCode OK.
C7_ErrorCodeThrown ==
    /\ response.errorCode \in ErrorCodes =>
           (pc = "rejected" /\ response.error.type = "ApolloError")
    /\ response.error.type = "ApolloError" => response.errorCode \in ErrorCodes
    /\ pc = "resolved" => response.errorCode = "OK"

\* a size-limit outcome delivered to the caller
C7_Witness ==
    /\ pc = "rejected"
    /\ response.errorCode = "RESULT_SIZE_LIMIT_EXCEEDED"
    /\ response.error.type = "ApolloError"

\* C8: if a backend resolver call fails, the promise of queryCalculator
\* rejects with the error of that call, the call is not retried and no data
\* is returned.
C8_ResolverErrorPropagates ==
    (Settled /\ \E k \in DOMAIN calls : calls[k].status = "failed") =>
        /\ pc = "rejected"
        /\ response.error.type = "ResolverError"
        /\ response.error.k \in DOMAIN calls
        /\ calls[response.error.k].status = "failed"
        /\ response.data = JNone
        /\ \A k \in DOMAIN resolverCalls : resolverCalls[k] <= 1

\* C9: at most 10 backend calls are in flight; a gateway call that arrives
\* while 10 are in flight waits and starts only after one of them settled.
C9_AtMostTenInFlight ==
    /\ [](Cardinality(InFlight) <= Concurrency)
    /\ [][resolverCalls' # resolverCalls => Cardinality(InFlight) < Concurrency]_vars

\* ten calls in flight and one waiting
C9_Witness == Cardinality(InFlight) = Concurrency /\ queue # <<>>

\* C10: once termination has been signalled no backend call is started:
\* every task that has not yet invoked the resolver completes with null
\* without invoking it; tasks in flight are left to finish.
C10_NoCallAfterTermination ==
    [][errorCode # NULL =>
          /\ resolverCalls' = resolverCalls
          /\ \A k \in DOMAIN calls :
                /\ calls[k].status = "queued" => calls'[k].status \in {"queued", "noop"}
                /\ calls[k].status = "noop" =>
                       \/ calls'[k].status = "noop"
                       \/ calls'[k].status = "settled" /\ calls'[k].result = VNull
                /\ calls[k].status = "running" =>
                       calls'[k].status \in {"running", "settled", "failed"}]_vars

\* a task queued before the signal completed with null, the resolver not invoked,
\* next to a call that was in flight and finished
C10_Witness ==
    /\ errorCode # NULL
    /\ \E k \in DOMAIN calls :
          calls[k].status \in {"settled", "done"} /\ Count(resolverCalls, k) = 0
    /\ \E k \in DOMAIN calls :
          calls[k].status \in {"settled", "done"} /\ Count(resolverCalls, k) = 1

EarlyCode == "EARLY_TERMINATION_RESULT_SIZE_LIMIT_EXCEEDED"
DeadlineCode == "MAX_QUERY_TIME_EXCEEDED"

\* C11: the then-callback of a resolver call that the gateway suppressed
\* with null adds 0 to the global size and records size 0 for its field, in
\* the scalar branch and in the object-field branch.
C11_SuppressedCallAddsNothing ==
    [][\A k \in DOMAIN calls :
          (calls[k].status = "settled" /\ Count(resolverCalls, k) = 0
           /\ calls'[k].status = "done") =>
              /\ globalSize' = globalSize
              /\ sizeMap'[k] = Fulfilled(0)]_vars

\* C12: the early-termination code is set only with terminateEarly enabled,
\* a non-zero threshold and a complete size above the threshold; while no
\* termination is flagged the global size does not exceed the complete
\* size, which is the size an unterminated evaluation reports.
C12_EarlyTerminationSound ==
    /\ (errorCode = EarlyCode \/ response.errorCode = EarlyCode) =>
           /\ terminateEarly
           /\ threshold # 0
           /\ CompleteSize(RootKey(scenario)) > threshold
    /\ errorCode = NULL => globalSize <= CompleteSize(RootKey(scenario))
    /\ FinishedUnterminated => response.resultSize = CompleteSize(RootKey(scenario))

\* the evaluation was terminated early while calls were still waiting
C12_Witness ==
    /\ errorCode = EarlyCode
    /\ globalSize > threshold
    /\ globalSize < CompleteSize(RootKey(scenario))

IsConcatenation(k) == Len(k.q) > 1
Singleton(k, i) == getMapKey(k.u, <<k.q[i]>>)

\* C13: without termination the size recorded for a selection of n > 1
\* items on a node is the sum of the sizes recorded for the n singleton
\* selections on that node plus n - 1.
C13_ConcatenationSize ==
    errorCode = NULL =>
        \A k \in DOMAIN sizeMap :
            (IsConcatenation(k) /\ sizeMap[k].state = "fulfilled") =>
                /\ \A i \in 1..Len(k.q) :
                       /\ Singleton(k, i) \in DOMAIN sizeMap
                       /\ sizeMap[Singleton(k, i)].state = "fulfilled"
                /\ sizeMap[k].value =
                       SumSeq([i \in 1..Len(k.q) |-> sizeMap[Singleton(k, i)].value])
                       + (Len(k.q) - 1)

\* a selection whose size is recorded and one of whose items was a memo hit:
\* the item was considered for the node before the selection was
C13_Witness ==
    /\ errorCode = NULL
    /\ \E k \in DOMAIN sizeMap :
          /\ IsConcatenation(k)
          /\ sizeMap[k].state = "fulfilled"
          /\ \E i \in 1..Len(k.q) : \E a, b \in 1..Len(labelMap[k.u]) :
                a < b /\ labelMap[k.u][a] = <<k.q[i]>> /\ labelMap[k.u][b] = k.q

IsFragment(k) == Len(k.q) = 1 /\ k.q[1].kind = "InlineFragment"
InnerKey(k) == getMapKey(k.u, k.q[1].sel)

\* C14: for an inline fragment on another type than that of the node the
\* size is 0, no token is appended for the fragment, the inner selection is
\* not evaluated and no gateway call is made for a field inside it.
C14_NonMatchingFragmentSkipped ==
    \A k \in DOMAIN dispatchCount :
        (IsFragment(k) /\ k.q[1].on # k.u.table) =>
            /\ k \in DOMAIN sizeMap
            /\ sizeMap[k] = Fulfilled(0)
            /\ resultMap[k] = <<>>
            /\ InnerKey(k) \notin DOMAIN dispatchCount
            /\ \A i \in 1..Len(k.q[1].sel) :
                   getMapKey(k.u, <<k.q[1].sel[i]>>) \notin DOMAIN calls \cup DOMAIN resolverCalls

\* a fragment on another type was passed and the sibling field was resolved
C14_Witness ==
    /\ \E k \in DOMAIN dispatchCount : IsFragment(k) /\ k.q[1].on # k.u.table
    /\ \E k \in DOMAIN resolverCalls : resolverCalls[k] = 1 /\ calls[k].status = "done"

\* C15: for an inline fragment on the type of the node the computation
\* recurses into the inner selection on the same node and completes without
\* error; the size is that of the inner selection and the tokens are one
\* reference to the key of the inner selection.
C15_MatchingFragmentTransparent ==
    \A k \in DOMAIN dispatchCount :
        (IsFragment(k) /\ k.q[1].on = k.u.table) =>
            /\ InnerKey(k) \in DOMAIN dispatchCount
            /\ k \in DOMAIN sizeMap
            /\ resultMap[k] = <<Ref(InnerKey(k))>>
            /\ response.error.type # "ReferenceError"
            /\ (k \in DOMAIN sizeMap /\ InnerKey(k) \in DOMAIN sizeMap) =>
                   sizeMap[k] = sizeMap[InnerKey(k)]

\* C16: without termination the token list of every key is a prefix of the
\* list in source order, and is that list once the size of the key is
\* recorded, in whatever order the resolver calls complete.
C16_TokensInSourceOrder ==
    errorCode = NULL =>
        \A k \in DOMAIN resultMap :
            /\ \E expected \in {ExpectedTokens(k)} :
                   /\ Len(resultMap[k]) <= Len(expected)
                   /\ \A i \in 1..Len(resultMap[k]) : resultMap[k][i] = expected[i]
            /\ (k \in DOMAIN sizeMap /\ sizeMap[k].state = "fulfilled") =>
                   resultMap[k] = ExpectedTokens(k)

\* a list whose second element is complete before its first, with the
\* tokens of both elements in the list
C16_Witness ==
    /\ errorCode = NULL
    /\ \E k \in DOMAIN resultMap :
          /\ ~IsConcatenation(k)
          /\ Len(Children(k)) = 2
          /\ Children(k)[1] \in DOMAIN sizeMap
          /\ Children(k)[2] \in DOMAIN sizeMap
          /\ sizeMap[Children(k)[1]].state = "pending"
          /\ sizeMap[Children(k)[2]].state = "fulfilled"
          /\ Len(resultMap[k]) = Len(ExpectedTokens(k)) - 1

\* C17: when the timer has fired and the root computation resolves, the
\* response carries MAX_QUERY_TIME_EXCEEDED whatever the size; without a
\* timeout that code is never set.
C17_DeadlineReported ==
    /\ (timer = "fired" /\ response.errorCode # "none") =>
           response.errorCode = DeadlineCode
    /\ ~timeout => (errorCode # DeadlineCode /\ response.errorCode # DeadlineCode)

\* the deadline reported for a query whose complete size is within the threshold
C17_Witness ==
    /\ timer = "fired"
    /\ response.errorCode = DeadlineCode
    /\ threshold > 0
    /\ CompleteSize(RootKey(scenario)) <= threshold

\* The guards of the callbacks: some callback is ready to run, or a backend
\* call is in flight.
Ready ==
    \/ pc = "init"
    \/ queue # <<>> /\ SlotFree
    \/ \E k \in DOMAIN calls : calls[k].status \in {"running", "noop", "settled"}
    \/ \E k \in DOMAIN pending :
          \/ \A i \in 1..Len(pending[k].deps) :
                 /\ DepState(sizeMap, pending[k].deps[i]) = "fulfilled"
                 /\ HitAddsDone(pending[k].deps[i])
          \/ \E i \in 1..Len(pending[k].deps) :
                 DepState(sizeMap, pending[k].deps[i]) = "rejected"
    \/ \E k \in DOMAIN hitAdds : hitAdds[k] > 0 /\ sizeMap[k].state = "fulfilled"
    \/ pc = "running" /\ DepState(sizeMap, rootPromise) = "fulfilled" /\ HitAddsDone(rootPromise)
    \/ pc = "running" /\ DepState(sizeMap, rootPromise) = "rejected"

\* an evaluation that has not ended is never without a callback to run
NeverStuck == Settled \/ Ready

C19_TerminationOneWay ==
    /\ [][errorCode # NULL => errorCode' # NULL]_vars
    /\ [](errorCode # NULL => checkTermination(Structures))

\* the deadline was signalled and a task started after it was suppressed
C19_Witness ==
    /\ errorCode = DeadlineCode
    /\ \E k \in DOMAIN calls : calls[k].status = "noop"

\* C20: evaluations share no state: the result and the hit count of an
\* evaluation are those of the evaluation alone, and a waiting call of an
\* evaluation with fewer than 10 calls in flight can be started whatever
\* the other evaluations do.
C20_InvocationsIndependent ==
    /\ pc = "resolved" =>
           /\ response.data = Execute(scenario)
           /\ response.cacheHits = ReachedMinusOne(scenario)
    /\ (queue # <<>> /\ activeCount < Concurrency) => SlotFree

\* a single field with a selection set
IsObjectField(k) == Len(k.q) = 1 /\ k.q[1].kind = "Field" /\ k.q[1].hasSel

\* C24: a caller that reaches a pair already considered receives the size
\* the first computation of the pair produces, and not before that
\* computation has finished: a size once recorded never changes, and
\* without termination the size recorded for a field with a selection set
\* is made of the complete sizes of the pairs of its related nodes, all of
\* them finished, whether the field reached them first or not.
C24_RevisitAwaitsFirstComputation ==
    /\ [][\A k \in DOMAIN sizeMap :
             sizeMap[k].state # "pending" => sizeMap'[k] = sizeMap[k]]_vars
    /\ [](errorCode = NULL =>
            \A k \in DOMAIN sizeMap :
                (IsObjectField(k) /\ sizeMap[k].state = "fulfilled") =>
                    LET kids == Children(k) IN
                    /\ \A i \in 1..Len(kids) :
                           /\ kids[i] \in DOMAIN sizeMap
                           /\ sizeMap[kids[i]].state = "fulfilled"
                           /\ sizeMap[kids[i]].value = CompleteSize(kids[i])
                           /\ kids[i] \notin DOMAIN pending
                    /\ sizeMap[k].value = CompleteSize(k))

\* two fields wait for the same pair, whose first computation is in flight
C24_Witness ==
    /\ errorCode = NULL
    /\ \E k1 \in DOMAIN pending : \E k2 \in DOMAIN pending :
          /\ k1 # k2
          /\ \E c \in DOMAIN sizeMap :
                /\ sizeMap[c].state = "pending"
                /\ Count(hitAdds, c) > 0
                /\ \E i \in 1..Len(pending[k1].deps) : pending[k1].deps[i] = ThenAdd(PKey(c), 2)
                /\ \E i \in 1..Len(pending[k2].deps) : pending[k2].deps[i] = ThenAdd(PKey(c), 2)

\* a single field without selection set
IsScalarField(k) == Len(k.q) = 1 /\ ~k.q[1].hasSel
\* what the resolver of the field of a single-field pair returns
ResolverResult(k) == Backend(k.u.id, k.q[1].name)

\* C25: without termination the size recorded for a single field without
\* selection set is 3 for a value that is not an array and
\* 2 + 2 + n + (n - 1) for an array of n >= 1 elements.
C25_ScalarFieldSize ==
    errorCode = NULL =>
        \A k \in DOMAIN sizeMap :
            (IsScalarField(k) /\ sizeMap[k].state = "fulfilled") =>
                LET n == Len(ResolverResult(k).l) IN
                /\ ResolverResult(k).t # "arr" => sizeMap[k].value = 3
                /\ (ResolverResult(k).t = "arr" /\ n >= 1) =>
                       sizeMap[k].value = 2 + 2 + n + (n - 1)

\* the size of a field whose value is an array of two elements is recorded
C25_Witness ==
    /\ errorCode = NULL
    /\ \E k \in DOMAIN sizeMap :
          /\ IsScalarField(k)
          /\ sizeMap[k].state = "fulfilled"
          /\ ResolverResult(k).t = "arr"
          /\ Len(ResolverResult(k).l) = 2

\* the tokens C26 describes for a value
ValueToken(v) ==
    CASE v.t = "str" -> Lit(Quote(v.s))
      [] v.t = "num" -> Lit(ToString(v.n))
      [] v.t = "arr" -> ArrTok(Serialize(ExecuteScalar(v)))
      [] OTHER -> NullTok

\* C26: the tokens recorded for a single field without selection set are
\* the quoted name with the colon and the serialized value, and
\* produceResult of the pair returns exactly that text, for a string, a
\* number, null and an array.
C26_ScalarFieldText ==
    errorCode = NULL =>
        \A k \in DOMAIN sizeMap :
            (IsScalarField(k) /\ sizeMap[k].state = "fulfilled") =>
                /\ resultMap[k] = <<Lit(NameTok(k.q[1].name)), ValueToken(ResolverResult(k))>>
                /\ produceResult(resultMap, k).ok
                /\ produceResult(resultMap, k).text =
                       <<NameTok(k.q[1].name)>> \o Serialize(ExecuteScalar(ResolverResult(k)))

\* C27: without termination the size recorded for a single field with a
\* selection set is 2 + 1 for null, with no reference to a related pair and
\* no pair considered for it; 2 + 2 + the size of the selection on the
\* related node for one object; and for an array of n elements
\* 2 + 2 + (n - 1) + the sum of (2 + the size of the selection on the node
\* of the element).
C27_ObjectFieldSize ==
    errorCode = NULL =>
        \A k \in DOMAIN sizeMap :
            (IsObjectField(k) /\ sizeMap[k].state = "fulfilled") =>
                LET v == ResolverResult(k)
                    n == Len(v.l)
                    sub(x) == sizeMap[getMapKey(createNode(x, FieldDef(k.q[1].name)),
                                                k.q[1].sel)].value
                IN CASE v.t = "null" ->
                            /\ sizeMap[k].value = 2 + 1
                            /\ \A i \in 1..Len(resultMap[k]) : resultMap[k][i].t # "array"
                            /\ \A j \in DOMAIN dispatchCount :
                                   j.u.table = FieldDef(k.q[1].name).typeName =>
                                       \E j2 \in DOMAIN sizeMap :
                                           j2 # k /\ j \in {Children(j2)[i] :
                                                              i \in 1..Len(Children(j2))}
                     [] v.t = "objs" ->
                            sizeMap[k].value =
                                2 + 2 + (n - 1) + SumSeq([i \in 1..n |-> 2 + sub(v.l[i])])
                     [] OTHER -> sizeMap[k].value = 2 + 2 + sub(v.n)

\* the size of a field whose value is an array of two objects is recorded
C27_Witness ==
    /\ errorCode = NULL
    /\ \E k \in DOMAIN sizeMap :
          /\ IsObjectField(k)
          /\ sizeMap[k].state = "fulfilled"
          /\ ResolverResult(k).t = "objs"
          /\ Len(ResolverResult(k).l) = 2

\* C28: the global size counter never decreases: every update adds a value
\* that is 0 or more, for every data shape and on every memo hit.
C28_GlobalSizeNeverDecreases == [][globalSize' >= globalSize]_vars

\* the counter was updated for an empty list: by 2 for the name and the
\* colon, then by 2 + 0 - 1 for the brackets and the commas
C28_Witness ==
    /\ globalSize = 2 + 1
    /\ \E k \in DOMAIN calls :
          /\ calls[k].status = "done"
          /\ IsObjectField(k)
          /\ calls[k].result = VObjs(<<>>)

RECURSIVE HasLoc(_)
\* the value or a value inside it, at any depth, has a loc property
HasLoc(val) ==
    /\ val.t \in {"obj", "arr"}
    /\ \E i \in 1..Len(val.p) : val.p[i].k = "loc" \/ HasLoc(val.p[i].v)

\* C22: the tree the canonicalizer returns has no loc property at any
\* depth: not in names, aliases, arguments and their values (list and
\* object values included), directives, nested selection sets, array
\* elements and type conditions.
C22_NoLocAnywhere == stage # "raw" => ~HasLoc(canonical)

RECURSIVE OnlyLocRemoved(_, _)
\* out is val without some of its loc properties: the other properties and
\* the array elements are the same, in the same order
OnlyLocRemoved(val, out) ==
    IF val.t \notin {"obj", "arr"} THEN out = val
    ELSE
        LET outHasLoc == \E i \in 1..Len(out.p) : out.p[i].k = "loc"
            rest == SelectSeq(val.p, LAMBDA pr : pr.k # "loc" \/ outHasLoc)
        IN /\ out.t = val.t
           /\ Len(out.p) = Len(rest)
           /\ \A i \in 1..Len(rest) :
                 /\ out.p[i].k = rest[i].k
                 /\ IF rest[i].k = "loc" THEN out.p[i].v = rest[i].v
                    ELSE OnlyLocRemoved(rest[i].v, out.p[i].v)

\* C23: canonicalizing a canonicalized selection returns an equal tree, and
\* the canonicalized selection is the selection without loc properties:
\* the items, the arguments and every other property are the same and in
\* the same order.
C23_CanonicalizationStable ==
    /\ [][stage = "once" => canonical' = canonical]_vars
    /\ [](stage # "raw" => OnlyLocRemoved(document, canonical))

\* a selection with alias, arguments, directive and sub-selection was
\* canonicalized twice by queryParser.js
C23_Witness ==
    /\ stage = "twice"
    /\ library = "queryParser"
    /\ document = Selections("z", "object", TRUE, "field")
    /\ canonical # document
    /\ ~HasLoc(canonical.p[1].v.p[3].v)

\* C30: when the document has more than one definition the call returns at
\* once: no pair is marked, no size is computed, the back-end is not called
\* and the validation context has no error added and is as it was given.
C30_SeveralDefinitionsReturnAtOnce ==
    definitions > 1 =>
        /\ phase \in {"init", "resolved", "returned"}
        /\ labels = <<>>
        /\ sizeArrays = <<>>
        /\ resolving = <<>>
        /\ joins = {}
        /\ validationContext = [errors |-> <<>>]
C30_Witness == definitions > 1 /\ phase \in {"resolved", "returned"} /\ returned = Resolution

\* C21: the call resolves to the validation context it was given, and once
\* it has resolved for a single definition an error is on that object if and
\* only if the size summed from the root pair is greater than the threshold.
C21_ResolvesToValidationContext ==
    /\ phase \in {"resolved", "returned"} => returned = "validationContext"
    /\ phase = "resolved" /\ definitions = 1 =>
           (validationContext.errors # <<>> <=> arrSum(sizeArrays, LegacyRoot) > threshold)

RECURSIVE UncutSize(_)
\* part_003: the numbers the branches push for a pair and below it when no
\* sub-size is skipped
UncutSize(k) ==
    LET item == k.q[1]
        v == Backend(k.u.id, item.name)
        kids == Children(k)
        below == [i \in 1..Len(kids) |-> UncutSize(kids[i])]
    IN IF Len(k.q) > 1 THEN (Len(kids) - 1) + SumSeq(below)
       ELSE IF ~item.hasSel THEN 3
       ELSE IF item.kind = "InlineFragment" THEN 0
       ELSE (IF FieldDef(item.name).list THEN 4 ELSE IF v.t # "null" THEN 2 ELSE 3)
            + (IF v.t = "null" THEN 2 ELSE 2 * Len(kids) + SumSeq(below))

\* C29: in the variant that checks the threshold inside the recursion, when
\* the full result size exceeds the threshold, the size summed at the root
\* exceeds it too and the size error is reported on the validation context.
C29_OversizedQueryIsReported ==
    variant = "part_003" /\ definitions = 1 /\ phase = "resolved"
    /\ UncutSize(LegacyRoot) > threshold
    => /\ arrSum(sizeArrays, LegacyRoot) > threshold
       /\ validationContext.errors # <<>>

C32_MarkedPairHasSizeEntry ==
    \A u \in DOMAIN labelMap : \A i \in 1..Len(labelMap[u]) :
        getMapKey(u, labelMap[u][i]) \in DOMAIN sizeMap

\* C33: when no termination was flagged and the root computation has
\* resolved, the global running size equals the returned resultSize; at
\* every moment before, while no termination is flagged, it is at most the
\* size the evaluation returns.
C33_GlobalSizeReachesResultSize ==
    /\ FinishedUnterminated => globalSize = response.resultSize
    /\ (errorCode = NULL /\ ~Settled) => globalSize <= CompleteSize(RootKey(scenario))
    /\ FinishedUnterminated => response.resultSize = CompleteSize(RootKey(scenario))

\* an evaluation with a revisit has resolved, no termination flagged
C33_Witness ==
    /\ FinishedUnterminated
    /\ hits > 0
    /\ globalSize = response.resultSize
    /\ globalSize > 3

\* C34: with a non-zero threshold, no deadline and no resolver failure the
\* decision is the same with terminateEarly enabled and disabled, in every
\* order of the resolver completions: every evaluation ends with errorCode
\* OK when the size of the result is within the threshold and with a
\* size-limit code when it is not.
C34_SameDecisionInBothModes ==
    (Settled /\ threshold # 0 /\ ~timeout /\ ~mayFail) =>
        IF CompleteSize(RootKey(scenario)) <= threshold
        THEN response.errorCode = "OK"
        ELSE response.errorCode \in SizeLimitCodes

\* C35: after a backend resolver call has failed and the promise of the
\* evaluation has rejected, the branches of that evaluation that are still
\* pending start no further backend resolver call.
C35_NoCallAfterFailure ==
    [][(pc = "rejected" /\ \E k \in DOMAIN calls : calls[k].status = "failed")
          => resolverCalls' = resolverCalls]_vars

\* C36: the timer set at the start is cancelled on every way the
\* evaluation can end, and its callback never runs after the evaluation has
\* settled.
C36_TimerCancelledOnEveryEnd ==
    /\ [](Settled => timer # "armed")
    /\ [][Settled => ~(timer = "armed" /\ timer' = "fired")]_vars

\* the keys the reference tokens of the list of k name
RefTargets(rm, k) ==
    {rm[k][i].a[1] : i \in {j \in 1..Len(rm[k]) : rm[k][j].t = "array" /\ Len(rm[k][j].a) = 1}}

RECURSIVE Reachable(_, _)
\* the keys produceResult comes to from the keys ks
Reachable(rm, ks) ==
    LET next == ks \cup UNION {RefTargets(rm, k) : k \in ks \cap DOMAIN rm}
    IN IF next = ks THEN ks ELSE Reachable(rm, next)

RECURSIVE SelectionSize(_)
\* the number of fields and fragments of a selection, nested ones included
SelectionSize(query) ==
    IF query = <<>> THEN 0
    ELSE 1 + (IF Head(query).hasSel THEN SelectionSize(Head(query).sel) ELSE 0)
           + SelectionSize(Tail(query))

\* C37: when produceResult runs, every reference reachable from the root
\* key names a key that has a token list, and every reference points to a
\* key with a strictly smaller selection, so there is no cycle of
\* references, cyclic data included.
C37_ReferencesResolveAndDescend ==
    response.produced # "no" =>
        \A k \in Reachable(resultMap, {RootKey(scenario)}) :
            /\ k \in DOMAIN resultMap
            /\ \A r \in RefTargets(resultMap, k) :
                   /\ r \in DOMAIN resultMap
                   /\ SelectionSize(r.q) < SelectionSize(k.q)

\* the result of a query over a cyclic data graph was produced: the same
\* node is reached with two selections
C37_Witness ==
    /\ response.produced = "text"
    /\ scenario = "cyclic"
    /\ \E k1, k2 \in Reachable(resultMap, {RootKey(scenario)}) : k1.u = k2.u /\ k1.q # k2.q

\* C38: with threshold 0 the size limit is disabled: neither size-limit
\* code is recorded or reported, whatever the size of the result and the
\* terminateEarly setting.
C38_ZeroThresholdDisablesLimit ==
    threshold = 0 =>
        /\ errorCode \notin SizeLimitCodes
        /\ response.errorCode \notin SizeLimitCodes
        /\ earlyTerminationTimestamp = FALSE

\* a result of more than MaxThreshold symbols returned with terminateEarly set
C38_Witness ==
    /\ threshold = 0
    /\ terminateEarly
    /\ pc = "resolved"
    /\ response.errorCode = "OK"
    /\ response.resultSize > MaxThreshold
====
